---- MODULE Spec2Model ----
(***************************************************************************)
(* The ledger engine of wwz223/blockchain (backend/blockchain.js and its   *)
(* extension with the auto-mining scheduler): transactions, blocks, the    *)
(* chain, balance derivation, difficulty retargeting, chain validation and *)
(* the faucet; and the checks the HTTP routes of the server make before    *)
(* they call the ledger.                                                   *)
(*                                                                         *)
(* Modelling conventions                                                   *)
(*  - crypto.SHA256 and crypto.HmacSHA256 are collision free: a digest is  *)
(*    the text "sha256(<input>)", a MAC the text "hmac(<key>;<message>)".  *)
(*    A block hash keeps the five concatenated inputs apart as a record.   *)
(*  - uuidv4() returns a value never returned before: the n-th identifier  *)
(*    drawn is the number n.                                               *)
(*  - Date.now() is the variable clock, in milliseconds since              *)
(*    Date.parse("2024-01-01"), so that the genesis block's timestamp is 0.*)
(*  - JavaScript null is the text "null", undefined is the empty tuple     *)
(*    where a number may stand (a defined number n is <<n>>).              *)
(*  - Account records hold address and alias only: the stored balance,     *)
(*    transactions and createdAt fields are never read by the ledger. A    *)
(*    block's hashRate is a derived statistic that nothing reads.          *)
(*  - Where the class defines a method twice (startAutoMining,             *)
(*    stopAutoMining, addMiner, removeMiner, startMiningCompetition) the   *)
(*    later definition is the one the class keeps, and the one modelled.   *)
(*  - hashPower is counted in tenths (1.0 is 10). A miner record holds     *)
(*    address, hashPower, blocksMined and totalRewards: alias, isActive    *)
(*    and joinedAt are never read by the ledger.                           *)
(*  - Math.random() * totalHashPower falls inside one of the unit cells    *)
(*    [r, r + 1) of tenths, 0 <= r < totalHashPower: a draw is its cell r. *)
(***************************************************************************)
EXTENDS Integers, Sequences, FiniteSets, TLC

VARIABLES
    chain,                  \* this.chain: sequence of blocks, chain[1] is genesis
    difficulty,             \* this.difficulty
    pendingTransactions,    \* this.pendingTransactions
    accounts,               \* this.accounts: Map in insertion order
    faucetHistory,          \* this.faucetHistory: address -> last claim time
    clock,                  \* Date.now()
    ticks,                  \* number of Tick steps taken (bounds the clock)
    last,                   \* the last operation called and its outcome
    autoMining,             \* this.autoMining
    miningInterval,         \* this.miningInterval: TRUE while the timer is set
    autoMineInterval,       \* this.autoMineInterval: <<>> until first start
    minTransactionsToMine,  \* this.minTransactionsToMine
    maxBlockTime,           \* this.maxBlockTime
    miners,                 \* this.miners, in registration order
    miningStats,            \* this.miningStats
    competitionBlocks       \* number of blocks appended by competitions

schedulerVars == <<autoMining, miningInterval, autoMineInterval,
                   minTransactionsToMine, maxBlockTime, miners, miningStats,
                   competitionBlocks>>

vars == <<chain, difficulty, pendingTransactions, accounts, faucetHistory,
          clock, ticks, last, schedulerVars>>

-----------------------------------------------------------------------------
(* Bounds of the model *)

MaxAccounts == 2        \* accounts created
FaucetMaxAccounts == 3 \* accounts created under SpecFaucet
MaxChain == 3           \* blocks in the chain, genesis included
MaxTx == 2              \* transactions accepted into the pool, in all
MaxTicks == 2           \* times the clock advances between two calls
FaucetMaxChain == 2     \* blocks in the chain under SpecFaucet
RetargetMaxChain == 8   \* blocks in the chain under SpecRetarget
ReserveMaxChain == 12   \* blocks in the chain under SpecReserve
ReserveMaxAccounts == 2 \* accounts created under SpecReserve
StartClock == 100000    \* Date.now() at construction
SchedulerMaxChain == 3  \* blocks in the chain under SpecScheduler
MaxMiners == 2          \* miners registered at one time
SchedulerMaxTicks == 1  \* times the clock advances under SpecScheduler
ServiceMaxChain == 3    \* blocks in the chain under SpecService
FrameMaxChain == 7      \* blocks in the chain under SpecFrame
FrameMaxAccounts == 1   \* accounts created under SpecFrame
FrameMaxTx == 1         \* transactions accepted into the pool under SpecFrame
FrameMaxMiners == 1     \* miners registered under SpecFrame
SpendMaxChain == 3      \* blocks in the chain under SpecSpend
ServiceMaxMiners == 1   \* miners registered under SpecService
LiveMaxChain == 3       \* blocks in the chain under SpecLive
LiveMaxAccounts == 1    \* accounts created under SpecLive
LiveMaxTx == 2          \* transactions accepted into the pool under SpecLive
LiveMaxMiners == 1      \* miners registered at one time under SpecLive
MinersMaxChain == 2     \* blocks in the chain under SpecMiners
MinersMaxAccounts == 2  \* accounts created under SpecMiners
MinersMaxTx == 1        \* transactions accepted into the pool under SpecMiners
MinersMaxMiners == 2    \* miners registered at one time under SpecMiners

(* The amounts callers submit. *)
Amounts == {60}

(* endTime - startTime of a proof-of-work search under SpecRetarget: none  *)
(* measurable, a tenth of the target, half of it, three times the target.  *)
MiningDurations == {0, 1000, 5000, 30000}

-----------------------------------------------------------------------------
(* Constants set by the Blockchain constructor and Block.mineBlock *)

NULL == "null"
initialDifficulty == 2
miningReward == 10
blockReward == 10
targetBlockTime == 10000
difficultyAdjustmentInterval == 5
faucetAmount == 100
faucetCooldown == 24 * 60 * 60 * 1000
faucetAddress == "genesis"
genesisSupply == 1000000
genesisTimestamp == 0
defaultAutoMineInterval == 10000
defaultMinTransactionsToMine == 1
defaultMaxBlockTime == 30000
minHashPower == 1
maxHashPower == 100

-----------------------------------------------------------------------------
(* Hashing and signing primitive *)

SHA256(s) == "sha256(" \o s \o ")"

HmacSHA256(message, key) == "hmac(" \o key \o ";" \o message \o ")"

Max(a, b) == IF a >= b THEN a ELSE b

-----------------------------------------------------------------------------
(* Transaction *)

Transaction(id, from, to, amount, type, now) ==
    [id |-> id, from |-> from, to |-> to, amount |-> amount, type |-> type,
     timestamp |-> now, signature |-> NULL]

Transaction_calculateHash(tx) ==
    SHA256(tx.from \o tx.to \o ToString(tx.amount) \o ToString(tx.timestamp)
           \o tx.type)

signTransaction(tx, signingKey) ==
    [tx EXCEPT !.signature = HmacSHA256(Transaction_calculateHash(tx), signingKey)]

(* isValid recomputing the MAC under the recipient's address. *)
Transaction_isValid_keyTo(tx) ==
    IF tx.from = NULL THEN "true"
    ELSE IF tx.signature = NULL \/ tx.signature = "" THEN "throw"
    ELSE IF tx.signature = HmacSHA256(Transaction_calculateHash(tx), tx.to)
         THEN "true" ELSE "false"

(* "true", "false" or "throw" (No signature in this transaction) *)
Transaction_isValid(tx) ==
    IF tx.from = NULL THEN "true"
    ELSE IF tx.signature = NULL \/ tx.signature = "" THEN "throw"
    ELSE IF tx.signature = HmacSHA256(Transaction_calculateHash(tx), tx.from)
         THEN "true" ELSE "false"

-----------------------------------------------------------------------------
(* Block *)

(* The digest of previousHash + timestamp + JSON.stringify(transactions)   *)
(* + nonce + (miner || ''); nonce is <<>> while the field is undefined.    *)
Block_calculateHash(previousHash, timestamp, transactions, nonce, miner) ==
    [previousHash |-> previousHash, timestamp |-> timestamp,
     transactions |-> transactions, nonce |-> nonce,
     miner |-> IF miner = NULL THEN "" ELSE miner]

(* The constructor computes hash before nonce and miner are assigned. *)
Block(timestamp, transactions, previousHash) ==
    [timestamp |-> timestamp, transactions |-> transactions,
     previousHash |-> previousHash,
     hash |-> Block_calculateHash(previousHash, timestamp, transactions, <<>>, NULL),
     nonce |-> 0, miner |-> NULL, reward |-> 0]

calculateHash(b) ==
    Block_calculateHash(b.previousHash, b.timestamp, b.transactions,
                        <<b.nonce>>, b.miner)

(* The number of leading zero characters of a digest: a fixed function of  *)
(* the hashed input. The digest taken over an undefined nonce has none;    *)
(* otherwise it is the number of times 2 divides nonce + |transactions|.   *)
RECURSIVE TwoAdic(_, _)
TwoAdic(n, cap) ==
    IF cap = 0 \/ n % 2 # 0 THEN 0 ELSE 1 + TwoAdic(n \div 2, cap - 1)

LeadingZeros(h) ==
    IF h.nonce = <<>> THEN 0
    ELSE TwoAdic(h.nonce[1] + Len(h.transactions), 16)

(* The first nonce from n on whose digest has d leading zeros. *)
RECURSIVE searchNonce(_, _, _)
searchNonce(b, n, d) ==
    IF LeadingZeros(calculateHash([b EXCEPT !.nonce = n])) >= d THEN n
    ELSE searchNonce(b, n + 1, d)

(* while (hash does not start with d zeros) { nonce++; hash = ... } *)
mineLoop(b, d) ==
    IF LeadingZeros(b.hash) >= d THEN b
    ELSE LET b1 == [b EXCEPT !.nonce = searchNonce(b, b.nonce + 1, d)]
         IN [b1 EXCEPT !.hash = calculateHash(b1)]

(* mineBlock setting miner and reward without searching. *)
mineBlock_noSearch(b, d, minerAddress) ==
    [b EXCEPT !.miner = minerAddress, !.reward = blockReward]

mineBlock(b, d, minerAddress) ==
    LET found == mineLoop(b, d)
    IN [found EXCEPT !.miner = minerAddress, !.reward = blockReward]

RECURSIVE hasValidTransactionsFrom(_, _)
hasValidTransactionsFrom(txs, i) ==
    IF i > Len(txs) THEN "true"
    ELSE LET v == Transaction_isValid(txs[i])
         IN IF v = "true" THEN hasValidTransactionsFrom(txs, i + 1)
            ELSE v

hasValidTransactions(b) == hasValidTransactionsFrom(b.transactions, 1)

-----------------------------------------------------------------------------
(* Blockchain: construction and account directory *)

createGenesisBlock(id, now) ==
    Block(genesisTimestamp,
          <<Transaction(id, NULL, "genesis", genesisSupply, "genesis", now)>>,
          "0")

getLatestBlock_first == chain[1]

getLatestBlock == chain[Len(chain)]

(* The number of transactions ever constructed and kept; the next uuid. *)
RECURSIVE CountTx(_, _)
CountTx(c, i) ==
    IF i > Len(c) THEN 0 ELSE Len(c[i].transactions) + CountTx(c, i + 1)

uuidv4 == CountTx(chain, 1) + Len(pendingTransactions)

generateAddress(alias) == "0x" \o ToString(Len(accounts) + 1)

has(accts, address) == \E i \in 1..Len(accts) : accts[i].address = address

createAccount(aliasOrAddress, isAlias) ==
    LET address == IF isAlias THEN generateAddress(aliasOrAddress)
                   ELSE aliasOrAddress
        alias == IF isAlias THEN aliasOrAddress ELSE NULL
    IN IF ~has(accounts, address)
       THEN [success |-> TRUE, address |-> address, alias |-> alias,
             accounts |-> Append(accounts, [address |-> address, alias |-> alias])]
       ELSE [success |-> FALSE, address |-> address, alias |-> alias,
             accounts |-> accounts]

(* findAccount trying the alias before the address. *)
findAccount_aliasFirst(aliasOrAddress) ==
    IF \E i \in 1..Len(accounts) : accounts[i].alias = aliasOrAddress
    THEN accounts[CHOOSE i \in 1..Len(accounts) :
                      /\ accounts[i].alias = aliasOrAddress
                      /\ \A j \in 1..(i - 1) : accounts[j].alias # aliasOrAddress]
    ELSE IF has(accounts, aliasOrAddress)
    THEN accounts[CHOOSE i \in 1..Len(accounts) :
                      accounts[i].address = aliasOrAddress]
    ELSE [address |-> NULL, alias |-> NULL]

(* The account found, or NULL. *)
findAccount(aliasOrAddress) ==
    IF has(accounts, aliasOrAddress)
    THEN accounts[CHOOSE i \in 1..Len(accounts) :
                      accounts[i].address = aliasOrAddress]
    ELSE IF \E i \in 1..Len(accounts) : accounts[i].alias = aliasOrAddress
    THEN accounts[CHOOSE i \in 1..Len(accounts) :
                      /\ accounts[i].alias = aliasOrAddress
                      /\ \A j \in 1..(i - 1) : accounts[j].alias # aliasOrAddress]
    ELSE [address |-> NULL, alias |-> NULL]

resolveAddress(aliasOrAddress) ==
    LET account == findAccount(aliasOrAddress)
    IN IF account.address # NULL THEN account.address ELSE aliasOrAddress

-----------------------------------------------------------------------------
(* Balance derivation *)

RECURSIVE txDelta(_, _, _)
txDelta(txs, i, address) ==
    IF i > Len(txs) THEN 0
    ELSE (IF txs[i].to = address THEN txs[i].amount ELSE 0)
         - (IF txs[i].from = address THEN txs[i].amount ELSE 0)
         + txDelta(txs, i + 1, address)

RECURSIVE chainDelta(_, _, _)
chainDelta(c, i, address) ==
    IF i > Len(c) THEN 0
    ELSE txDelta(c[i].transactions, 1, address)
         + (IF c[i].miner = address THEN c[i].reward ELSE 0)
         + chainDelta(c, i + 1, address)

(* getAccountBalance counting the pending pool as well. *)
balanceOn_withPending(c, aliasOrAddress) ==
    LET address == resolveAddress(aliasOrAddress)
    IN IF ~has(accounts, address) THEN 0
       ELSE chainDelta(c, 1, address) + txDelta(pendingTransactions, 1, address)

(* getAccountBalance evaluated over the chain c. *)
balanceOn(c, aliasOrAddress) ==
    LET address == resolveAddress(aliasOrAddress)
    IN IF ~has(accounts, address) THEN 0 ELSE chainDelta(c, 1, address)

getAccountBalance(aliasOrAddress) == balanceOn(chain, aliasOrAddress)

-----------------------------------------------------------------------------
(* Ledger operations. Each returns its outcome and the fields it leaves   *)
(* behind; the actions below store them.                                   *)

(* createTransaction refusing a transfer of the whole balance. *)
createTransaction_atMost(transaction) ==
    LET fromAddress == resolveAddress(transaction.from)
        toAddress == resolveAddress(transaction.to)
        unchanged == [transaction |-> transaction,
                      pendingTransactions |-> pendingTransactions]
    IN IF transaction.from \in {NULL, ""} \/ transaction.to \in {NULL, ""}
       THEN [outcome |-> "MissingAddress"] @@ unchanged
       ELSE IF ~has(accounts, fromAddress) \/ ~has(accounts, toAddress)
       THEN [outcome |-> "UnknownAccount"] @@ unchanged
       ELSE IF getAccountBalance(transaction.from) <= transaction.amount
       THEN [outcome |-> "InsufficientBalance"] @@ unchanged
       ELSE LET signed == signTransaction(
                    [transaction EXCEPT !.from = fromAddress, !.to = toAddress],
                    fromAddress)
            IN [outcome |-> "ok", transaction |-> signed,
                pendingTransactions |-> Append(pendingTransactions, signed)]

createTransaction(transaction) ==
    LET fromAddress == resolveAddress(transaction.from)
        toAddress == resolveAddress(transaction.to)
        unchanged == [transaction |-> transaction,
                      pendingTransactions |-> pendingTransactions]
    IN IF transaction.from \in {NULL, ""} \/ transaction.to \in {NULL, ""}
       THEN [outcome |-> "MissingAddress"] @@ unchanged
       ELSE IF ~has(accounts, fromAddress) \/ ~has(accounts, toAddress)
       THEN [outcome |-> "UnknownAccount"] @@ unchanged
       ELSE IF getAccountBalance(transaction.from) < transaction.amount
       THEN [outcome |-> "InsufficientBalance"] @@ unchanged
       ELSE LET signed == signTransaction(
                    [transaction EXCEPT !.from = fromAddress, !.to = toAddress],
                    fromAddress)
            IN [outcome |-> "ok", transaction |-> signed,
                pendingTransactions |-> Append(pendingTransactions, signed)]

(* !block.miningTime: the field is missing or 0. *)
hasMiningTime(b) == "miningTime" \in DOMAIN b /\ b.miningTime # 0

RECURSIVE sumMiningTime(_, _)
sumMiningTime(c, i) ==
    IF i > Len(c) THEN 0
    ELSE (IF hasMiningTime(c[i]) THEN c[i].miningTime ELSE 0)
         + sumMiningTime(c, i + 1)

RECURSIVE countMiningTime(_, _)
countMiningTime(c, i) ==
    IF i > Len(c) THEN 0
    ELSE (IF hasMiningTime(c[i]) THEN 1 ELSE 0) + countMiningTime(c, i + 1)

(* The difficulty adjustDifficulty leaves, for chain c and difficulty d.   *)
(* timeRatio < 0.5 and timeRatio > 2.0 are compared without division:      *)
(* total / count / target < 1/2  iff  2 * total < count * target.          *)
(* adjustDifficulty without the floor of 1. *)
adjustDifficultyOn_noFloor(c, d) ==
    IF Len(c) < difficultyAdjustmentInterval THEN d
    ELSE LET first == Len(c) - difficultyAdjustmentInterval + 1
             adjustmentBlock == c[first]
             lastBlock == c[Len(c)]
             totalMiningTime == sumMiningTime(c, first)
             count == countMiningTime(c, first)
         IN IF ~hasMiningTime(adjustmentBlock) \/ ~hasMiningTime(lastBlock)
            THEN d
            ELSE IF count = 0 THEN d
            ELSE IF 2 * totalMiningTime < count * targetBlockTime THEN d + 1
            ELSE IF totalMiningTime > 2 * count * targetBlockTime
                 THEN d - 1
            ELSE d

(* adjustDifficulty raising the difficulty by two. *)
adjustDifficultyOn_byTwo(c, d) ==
    IF Len(c) < difficultyAdjustmentInterval THEN d
    ELSE LET first == Len(c) - difficultyAdjustmentInterval + 1
             adjustmentBlock == c[first]
             lastBlock == c[Len(c)]
             totalMiningTime == sumMiningTime(c, first)
             count == countMiningTime(c, first)
         IN IF ~hasMiningTime(adjustmentBlock) \/ ~hasMiningTime(lastBlock)
            THEN d
            ELSE IF count = 0 THEN d
            ELSE IF 2 * totalMiningTime < count * targetBlockTime THEN d + 2
            ELSE IF totalMiningTime > 2 * count * targetBlockTime
                 THEN Max(1, d - 1)
            ELSE d

adjustDifficultyOn(c, d) ==
    IF Len(c) < difficultyAdjustmentInterval THEN d
    ELSE LET first == Len(c) - difficultyAdjustmentInterval + 1
             adjustmentBlock == c[first]
             lastBlock == c[Len(c)]
             totalMiningTime == sumMiningTime(c, first)
             count == countMiningTime(c, first)
         IN IF ~hasMiningTime(adjustmentBlock) \/ ~hasMiningTime(lastBlock)
            THEN d
            ELSE IF count = 0 THEN d
            ELSE IF 2 * totalMiningTime < count * targetBlockTime THEN d + 1
            ELSE IF totalMiningTime > 2 * count * targetBlockTime
                 THEN Max(1, d - 1)
            ELSE d

adjustDifficulty == adjustDifficultyOn(chain, difficulty)

(* minePendingTransactions without the miner check. *)
minePendingTransactions_noCheck(miningRewardAddress, duration) ==
    LET resolvedAddress == resolveAddress(miningRewardAddress)
    IN IF FALSE
       THEN [outcome |-> "InvalidMinerAddress", chain |-> chain,
             pendingTransactions |-> pendingTransactions,
             difficulty |-> difficulty, clock |-> clock]
       ELSE LET d == adjustDifficulty
                mined == mineBlock(
                    Block(clock, pendingTransactions, getLatestBlock.hash),
                    d, resolvedAddress)
                block == [timestamp |-> mined.timestamp,
                          transactions |-> mined.transactions,
                          previousHash |-> mined.previousHash,
                          hash |-> mined.hash, nonce |-> mined.nonce,
                          miner |-> mined.miner, reward |-> mined.reward,
                          miningTime |-> duration]
            IN [outcome |-> "ok", chain |-> Append(chain, block),
                pendingTransactions |-> <<>>, difficulty |-> d,
                clock |-> clock + duration]

(* minePendingTransactions paying the reward by a pending transaction. *)
minePendingTransactions_rewardTx(miningRewardAddress, duration) ==
    LET resolvedAddress == resolveAddress(miningRewardAddress)
    IN IF ~has(accounts, resolvedAddress)
       THEN [outcome |-> "InvalidMinerAddress", chain |-> chain,
             pendingTransactions |-> pendingTransactions,
             difficulty |-> difficulty, clock |-> clock]
       ELSE LET d == adjustDifficulty
                mined == mineBlock(
                    Block(clock, pendingTransactions, getLatestBlock.hash),
                    d, resolvedAddress)
                block == [timestamp |-> mined.timestamp,
                          transactions |-> mined.transactions,
                          previousHash |-> mined.previousHash,
                          hash |-> mined.hash, nonce |-> mined.nonce,
                          miner |-> mined.miner, reward |-> mined.reward,
                          miningTime |-> duration]
            IN [outcome |-> "ok", chain |-> Append(chain, block),
                pendingTransactions |->
                    <<Transaction(uuidv4, NULL, resolvedAddress, miningReward,
                                  "reward", clock)>>,
                difficulty |-> d,
                clock |-> clock + duration]

(* minePendingTransactions leaving the pool as it was. *)
minePendingTransactions_keepPool(miningRewardAddress, duration) ==
    LET resolvedAddress == resolveAddress(miningRewardAddress)
    IN IF ~has(accounts, resolvedAddress)
       THEN [outcome |-> "InvalidMinerAddress", chain |-> chain,
             pendingTransactions |-> pendingTransactions,
             difficulty |-> difficulty, clock |-> clock]
       ELSE LET d == adjustDifficulty
                mined == mineBlock(
                    Block(clock, pendingTransactions, getLatestBlock.hash),
                    d, resolvedAddress)
                block == [timestamp |-> mined.timestamp,
                          transactions |-> mined.transactions,
                          previousHash |-> mined.previousHash,
                          hash |-> mined.hash, nonce |-> mined.nonce,
                          miner |-> mined.miner, reward |-> mined.reward,
                          miningTime |-> duration]
            IN [outcome |-> "ok", chain |-> Append(chain, block),
                pendingTransactions |-> pendingTransactions, difficulty |-> d,
                clock |-> clock + duration]

(* minePendingTransactions putting the new block in the place of the tip. *)
minePendingTransactions_replaceTip(miningRewardAddress, duration) ==
    LET resolvedAddress == resolveAddress(miningRewardAddress)
    IN IF ~has(accounts, resolvedAddress)
       THEN [outcome |-> "InvalidMinerAddress", chain |-> chain,
             pendingTransactions |-> pendingTransactions,
             difficulty |-> difficulty, clock |-> clock]
       ELSE LET d == adjustDifficulty
                mined == mineBlock(
                    Block(clock, pendingTransactions, getLatestBlock.hash),
                    d, resolvedAddress)
                block == [timestamp |-> mined.timestamp,
                          transactions |-> mined.transactions,
                          previousHash |-> mined.previousHash,
                          hash |-> mined.hash, nonce |-> mined.nonce,
                          miner |-> mined.miner, reward |-> mined.reward,
                          miningTime |-> duration]
            IN [outcome |-> "ok",
                chain |-> IF Len(chain) < 2 THEN Append(chain, block)
                          ELSE [chain EXCEPT ![Len(chain)] = block],
                pendingTransactions |-> <<>>, difficulty |-> d,
                clock |-> clock + duration]

(* duration is endTime - startTime of the proof-of-work search. *)
minePendingTransactions(miningRewardAddress, duration) ==
    LET resolvedAddress == resolveAddress(miningRewardAddress)
    IN IF ~has(accounts, resolvedAddress)
       THEN [outcome |-> "InvalidMinerAddress", chain |-> chain,
             pendingTransactions |-> pendingTransactions,
             difficulty |-> difficulty, clock |-> clock]
       ELSE LET d == adjustDifficulty
                mined == mineBlock(
                    Block(clock, pendingTransactions, getLatestBlock.hash),
                    d, resolvedAddress)
                block == [timestamp |-> mined.timestamp,
                          transactions |-> mined.transactions,
                          previousHash |-> mined.previousHash,
                          hash |-> mined.hash, nonce |-> mined.nonce,
                          miner |-> mined.miner, reward |-> mined.reward,
                          miningTime |-> duration]
            IN [outcome |-> "ok", chain |-> Append(chain, block),
                pendingTransactions |-> <<>>, difficulty |-> d,
                clock |-> clock + duration]

-----------------------------------------------------------------------------
(* Faucet *)

ceilDiv(a, b) == (a + b - 1) \div b

(* canUseFaucet still refusing when exactly the cooldown has elapsed. *)
canUseFaucet_strict(aliasOrAddress) ==
    LET address == resolveAddress(aliasOrAddress)
    IN IF ~has(accounts, address)
       THEN [canUse |-> FALSE, reason |-> "Account not found",
             remainingTime |-> <<>>]
       ELSE IF address \notin DOMAIN faucetHistory \/ faucetHistory[address] = 0
       THEN [canUse |-> TRUE, reason |-> "First time use", remainingTime |-> <<>>]
       ELSE LET timeSinceLastUse == clock - faucetHistory[address]
                remainingTime == faucetCooldown - timeSinceLastUse
            IN IF timeSinceLastUse > faucetCooldown
               THEN [canUse |-> TRUE, reason |-> "Cooldown expired",
                     remainingTime |-> <<>>]
               ELSE [canUse |-> FALSE,
                     reason |-> "Please wait "
                                \o ToString(ceilDiv(remainingTime, 60 * 60 * 1000))
                                \o " hours before using faucet again",
                     remainingTime |-> <<remainingTime>>]

canUseFaucet(aliasOrAddress) ==
    LET address == resolveAddress(aliasOrAddress)
    IN IF ~has(accounts, address)
       THEN [canUse |-> FALSE, reason |-> "Account not found",
             remainingTime |-> <<>>]
       ELSE IF address \notin DOMAIN faucetHistory \/ faucetHistory[address] = 0
       THEN [canUse |-> TRUE, reason |-> "First time use", remainingTime |-> <<>>]
       ELSE LET timeSinceLastUse == clock - faucetHistory[address]
                remainingTime == faucetCooldown - timeSinceLastUse
            IN IF timeSinceLastUse >= faucetCooldown
               THEN [canUse |-> TRUE, reason |-> "Cooldown expired",
                     remainingTime |-> <<>>]
               ELSE [canUse |-> FALSE,
                     reason |-> "Please wait "
                                \o ToString(ceilDiv(remainingTime, 60 * 60 * 1000))
                                \o " hours before using faucet again",
                     remainingTime |-> <<remainingTime>>]

(* useFaucet paying the name it was given instead of the resolved address. *)
useFaucet_unresolved(aliasOrAddress) ==
    LET address == resolveAddress(aliasOrAddress)
        canUseResult == canUseFaucet(aliasOrAddress)
        unchanged == [pendingTransactions |-> pendingTransactions,
                      faucetHistory |-> faucetHistory]
    IN IF ~canUseResult.canUse
       THEN [outcome |-> "FaucetIneligible", reason |-> canUseResult.reason]
            @@ unchanged
       ELSE IF getAccountBalance(faucetAddress) < faucetAmount
       THEN [outcome |-> "FaucetEmpty",
             reason |-> "Faucet is empty, please contact administrator"]
            @@ unchanged
       ELSE LET faucetTransaction ==
                    Transaction(uuidv4, faucetAddress, aliasOrAddress, faucetAmount,
                                "faucet", clock)
            IN [outcome |-> "ok", reason |-> "",
                pendingTransactions |->
                    Append(pendingTransactions, faucetTransaction),
                faucetHistory |->
                    [a \in DOMAIN faucetHistory \cup {address} |->
                        IF a = address THEN clock ELSE faucetHistory[a]]]

(* useFaucet recording the claim time before it looks at the reserve. *)
useFaucet_recordFirst(aliasOrAddress) ==
    LET address == resolveAddress(aliasOrAddress)
        canUseResult == canUseFaucet(aliasOrAddress)
        recorded == [a \in DOMAIN faucetHistory \cup {address} |->
                        IF a = address THEN clock ELSE faucetHistory[a]]
    IN IF ~canUseResult.canUse
       THEN [outcome |-> "FaucetIneligible", reason |-> canUseResult.reason,
             pendingTransactions |-> pendingTransactions,
             faucetHistory |-> faucetHistory]
       ELSE IF getAccountBalance(faucetAddress) < faucetAmount
       THEN [outcome |-> "FaucetEmpty",
             reason |-> "Faucet is empty, please contact administrator",
             pendingTransactions |-> pendingTransactions,
             faucetHistory |-> recorded]
       ELSE LET faucetTransaction ==
                    Transaction(uuidv4, faucetAddress, address, faucetAmount,
                                "faucet", clock)
            IN [outcome |-> "ok", reason |-> "",
                pendingTransactions |->
                    Append(pendingTransactions, faucetTransaction),
                faucetHistory |-> recorded]

(* useFaucet keeping the claim time of the last claimant only. *)
useFaucet_forgetOthers(aliasOrAddress) ==
    LET address == resolveAddress(aliasOrAddress)
        canUseResult == canUseFaucet(aliasOrAddress)
        unchanged == [pendingTransactions |-> pendingTransactions,
                      faucetHistory |-> faucetHistory]
    IN IF ~canUseResult.canUse
       THEN [outcome |-> "FaucetIneligible", reason |-> canUseResult.reason]
            @@ unchanged
       ELSE IF getAccountBalance(faucetAddress) < faucetAmount
       THEN [outcome |-> "FaucetEmpty",
             reason |-> "Faucet is empty, please contact administrator"]
            @@ unchanged
       ELSE LET faucetTransaction ==
                    Transaction(uuidv4, faucetAddress, address, faucetAmount,
                                "faucet", clock)
            IN [outcome |-> "ok", reason |-> "",
                pendingTransactions |->
                    Append(pendingTransactions, faucetTransaction),
                faucetHistory |-> [a \in {address} |-> clock]]

useFaucet(aliasOrAddress) ==
    LET address == resolveAddress(aliasOrAddress)
        canUseResult == canUseFaucet(aliasOrAddress)
        unchanged == [pendingTransactions |-> pendingTransactions,
                      faucetHistory |-> faucetHistory]
    IN IF ~canUseResult.canUse
       THEN [outcome |-> "FaucetIneligible", reason |-> canUseResult.reason]
            @@ unchanged
       ELSE IF getAccountBalance(faucetAddress) < faucetAmount
       THEN [outcome |-> "FaucetEmpty",
             reason |-> "Faucet is empty, please contact administrator"]
            @@ unchanged
       ELSE LET faucetTransaction ==
                    Transaction(uuidv4, faucetAddress, address, faucetAmount,
                                "faucet", clock)
            IN [outcome |-> "ok", reason |-> "",
                pendingTransactions |->
                    Append(pendingTransactions, faucetTransaction),
                faucetHistory |->
                    [a \in DOMAIN faucetHistory \cup {address} |->
                        IF a = address THEN clock ELSE faucetHistory[a]]]

-----------------------------------------------------------------------------
(* Chain validation: "true", "false" or "throw". id and now are the uuid   *)
(* and the time the rebuilt genesis transaction receives.                  *)

RECURSIVE validFrom(_, _)
validFrom(c, i) ==
    IF i > Len(c) THEN "true"
    ELSE IF c[i - 1].hash # c[i].previousHash THEN "false"
    ELSE IF hasValidTransactions(c[i]) # "true"
         THEN hasValidTransactions(c[i])
    ELSE IF c[i].hash # calculateHash(c[i]) THEN "false"
    ELSE validFrom(c, i + 1)

isChainValidOn_noGenesisCheck(c, id, now) == validFrom(c, 2)

isChainValidOn(c, id, now) ==
    IF createGenesisBlock(id, now) # c[1] THEN "false"
    ELSE validFrom(c, 2)

isChainValid == isChainValidOn(chain, uuidv4, clock)

-----------------------------------------------------------------------------
(* The auto-mining scheduler *)

(* config.x || d: an absent or zero setting takes the default d. *)
orDefault(x, d) == IF x = 0 THEN d ELSE x

startAutoMining(config) ==
    IF autoMining
    THEN [success |-> FALSE, autoMining |-> autoMining,
          miningInterval |-> miningInterval,
          autoMineInterval |-> autoMineInterval,
          minTransactionsToMine |-> minTransactionsToMine,
          maxBlockTime |-> maxBlockTime]
    ELSE [success |-> TRUE, autoMining |-> TRUE, miningInterval |-> TRUE,
          autoMineInterval |->
              <<orDefault(config.autoMineInterval, defaultAutoMineInterval)>>,
          minTransactionsToMine |->
              orDefault(config.minTransactionsToMine, defaultMinTransactionsToMine),
          maxBlockTime |-> orDefault(config.maxBlockTime, defaultMaxBlockTime)]

(* stopAutoMining leaving the timer set. *)
stopAutoMining_keepTimer ==
    IF ~autoMining
    THEN [success |-> FALSE, autoMining |-> autoMining,
          miningInterval |-> miningInterval]
    ELSE [success |-> TRUE, autoMining |-> FALSE,
          miningInterval |-> miningInterval]

stopAutoMining ==
    IF ~autoMining
    THEN [success |-> FALSE, autoMining |-> autoMining,
          miningInterval |-> miningInterval]
    ELSE [success |-> TRUE, autoMining |-> FALSE, miningInterval |-> FALSE]

minerIndex(address) ==
    IF \E i \in 1..Len(miners) : miners[i].address = address
    THEN CHOOSE i \in 1..Len(miners) :
             /\ miners[i].address = address
             /\ \A j \in 1..(i - 1) : miners[j].address # address
    ELSE 0

Min(a, b) == IF a <= b THEN a ELSE b

(* The number that is not a number: what a weight that is no number       *)
(* becomes in arithmetic. Math.min, Math.max and + return it when an      *)
(* argument is it, and every comparison with it is false.                 *)
NaN == 0 - 1000000

Math_min(a, b) == IF a = NaN \/ b = NaN THEN NaN ELSE Min(a, b)

Math_max(a, b) == IF a = NaN \/ b = NaN THEN NaN ELSE Max(a, b)

plus(a, b) == IF a = NaN \/ b = NaN THEN NaN ELSE a + b

(* random <= weight, for a random anywhere in the cell [random, random + 1). *)
lessOrEqual(random, weight) == random # NaN /\ weight # NaN /\ random < weight

addMiner(minerAddress, hashPower) ==
    LET resolvedAddress == resolveAddress(minerAddress)
    IN IF resolvedAddress \in {NULL, ""}
       THEN [success |-> FALSE, error |-> "Address not found", miners |-> miners]
       ELSE IF minerIndex(resolvedAddress) # 0
       THEN [success |-> FALSE, error |-> "Address is already a miner",
             miners |-> miners]
       ELSE [success |-> TRUE, error |-> "",
             miners |-> Append(miners,
                 [address |-> resolvedAddress,
                  hashPower |->
                      Math_max(minHashPower, Math_min(maxHashPower, hashPower)),
                  blocksMined |-> 0, totalRewards |-> 0])]

removeMiner(minerAddress) ==
    LET resolvedAddress == resolveAddress(minerAddress)
        index == minerIndex(resolvedAddress)
    IN IF resolvedAddress \in {NULL, ""}
       THEN [success |-> FALSE, error |-> "Address not found", miners |-> miners]
       ELSE IF index = 0
       THEN [success |-> FALSE, error |-> "Address is not a miner",
             miners |-> miners]
       ELSE [success |-> TRUE, error |-> "",
             miners |-> SubSeq(miners, 1, index - 1)
                        \o SubSeq(miners, index + 1, Len(miners))]

RECURSIVE currentWeight(_)
currentWeight(i) ==
    IF i = 0 THEN 0 ELSE plus(miners[i].hashPower, currentWeight(i - 1))

totalHashPower == currentWeight(Len(miners))

(* winningMiner comparing the draw with each miner's own weight. *)
winningMiner_ownWeight(draw) ==
    IF \E i \in 1..Len(miners) : lessOrEqual(draw, miners[i].hashPower)
    THEN CHOOSE i \in 1..Len(miners) :
             /\ lessOrEqual(draw, miners[i].hashPower)
             /\ \A j \in 1..(i - 1) : ~lessOrEqual(draw, miners[j].hashPower)
    ELSE 0

(* The index of the first miner with random <= currentWeight, 0 if none. *)
winningMiner(draw) ==
    IF \E i \in 1..Len(miners) : lessOrEqual(draw, currentWeight(i))
    THEN CHOOSE i \in 1..Len(miners) :
             /\ lessOrEqual(draw, currentWeight(i))
             /\ \A j \in 1..(i - 1) : ~lessOrEqual(draw, currentWeight(j))
    ELSE 0

schedulerUnchanged ==
    [chain |-> chain, pendingTransactions |-> pendingTransactions,
     difficulty |-> difficulty, clock |-> clock, miners |-> miners,
     miningStats |-> miningStats]

(* startMiningCompetition forgetting the aggregate statistics. *)
startMiningCompetition_noAggregate(draw, duration) ==
    IF Len(miners) = 0 THEN [outcome |-> "NoMiners"] @@ schedulerUnchanged
    ELSE IF Len(pendingTransactions) = 0
    THEN [outcome |-> "EmptyPool"] @@ schedulerUnchanged
    ELSE LET w == winningMiner(draw)
         IN IF w = 0 THEN [outcome |-> "NoWinner"] @@ schedulerUnchanged
            ELSE LET r == minePendingTransactions(miners[w].address, duration)
                 IN IF r.outcome # "ok"
                    THEN [outcome |-> "throw"] @@ schedulerUnchanged
                    ELSE [outcome |-> "ok", chain |-> r.chain,
                          pendingTransactions |-> r.pendingTransactions,
                          difficulty |-> r.difficulty, clock |-> r.clock,
                          miners |->
                              [miners EXCEPT
                                  ![w].blocksMined = @ + 1,
                                  ![w].totalRewards = @ + miningReward],
                          miningStats |-> miningStats]

(* "throw": minePendingTransactions raised and nothing caught it. *)
startMiningCompetition(draw, duration) ==
    IF Len(miners) = 0 THEN [outcome |-> "NoMiners"] @@ schedulerUnchanged
    ELSE IF Len(pendingTransactions) = 0
    THEN [outcome |-> "EmptyPool"] @@ schedulerUnchanged
    ELSE LET w == winningMiner(draw)
         IN IF w = 0 THEN [outcome |-> "NoWinner"] @@ schedulerUnchanged
            ELSE LET r == minePendingTransactions(miners[w].address, duration)
                 IN IF r.outcome # "ok"
                    THEN [outcome |-> "throw"] @@ schedulerUnchanged
                    ELSE [outcome |-> "ok", chain |-> r.chain,
                          pendingTransactions |-> r.pendingTransactions,
                          difficulty |-> r.difficulty, clock |-> r.clock,
                          miners |->
                              [miners EXCEPT
                                  ![w].blocksMined = @ + 1,
                                  ![w].totalRewards = @ + miningReward],
                          miningStats |->
                              [totalBlocksMined |->
                                   miningStats.totalBlocksMined + 1,
                               totalRewardsPaid |->
                                   miningStats.totalRewardsPaid + miningReward]]

checkAndStartMining(draw, duration) ==
    IF ~autoMining THEN [outcome |-> "NotRunning"] @@ schedulerUnchanged
    ELSE LET lastBlock == getLatestBlock
             timeSinceLastBlock == clock - lastBlock.timestamp
             hasEnoughTransactions ==
                 Len(pendingTransactions) >= minTransactionsToMine
             timeForced == timeSinceLastBlock >= maxBlockTime
         IN IF hasEnoughTransactions \/ timeForced
            THEN startMiningCompetition(draw, duration)
            ELSE [outcome |-> "NotDue"] @@ schedulerUnchanged

-----------------------------------------------------------------------------
(* The HTTP layer: what a route does before and around its ledger call.    *)
(* An exception of the ledger call is caught by the route and answered as  *)
(* an error; the outcome names it.                                         *)

(* POST /api/transactions without the test amount <= 0. *)
postTransactions_anySign(from, to, amount) ==
    IF from \in {NULL, ""} \/ to \in {NULL, ""} \/ amount = 0
    THEN [outcome |-> "Required", pendingTransactions |-> pendingTransactions]
    ELSE LET r == createTransaction(
                      Transaction(uuidv4, from, to, amount, "transfer", clock))
         IN [outcome |-> r.outcome, pendingTransactions |-> r.pendingTransactions]

(* POST /api/transactions: !amount holds for an absent amount and for 0. *)
postTransactions(from, to, amount) ==
    IF from \in {NULL, ""} \/ to \in {NULL, ""} \/ amount = 0
    THEN [outcome |-> "Required", pendingTransactions |-> pendingTransactions]
    ELSE IF amount <= 0
    THEN [outcome |-> "AmountNotPositive",
          pendingTransactions |-> pendingTransactions]
    ELSE LET r == createTransaction(
                      Transaction(uuidv4, from, to, amount, "transfer", clock))
         IN [outcome |-> r.outcome, pendingTransactions |-> r.pendingTransactions]

(* POST /api/mine without the test of the pending pool. *)
postMine_noPoolCheck(minerAddress, duration) ==
    IF minerAddress \in {NULL, ""}
    THEN [outcome |-> "Required", chain |-> chain,
          pendingTransactions |-> pendingTransactions,
          difficulty |-> difficulty, clock |-> clock]
    ELSE minePendingTransactions(minerAddress, duration)

(* POST /api/mine *)
postMine(minerAddress, duration) ==
    IF minerAddress \in {NULL, ""}
    THEN [outcome |-> "Required", chain |-> chain,
          pendingTransactions |-> pendingTransactions,
          difficulty |-> difficulty, clock |-> clock]
    ELSE IF Len(pendingTransactions) = 0
    THEN [outcome |-> "NoPendingTransactions", chain |-> chain,
          pendingTransactions |-> pendingTransactions,
          difficulty |-> difficulty, clock |-> clock]
    ELSE minePendingTransactions(minerAddress, duration)

(* POST /api/faucet/claim *)
postFaucetClaim(address) ==
    IF address \in {NULL, ""}
    THEN [outcome |-> "Required", reason |-> "Address or alias is required",
          pendingTransactions |-> pendingTransactions,
          faucetHistory |-> faucetHistory]
    ELSE IF ~canUseFaucet(address).canUse
    THEN [outcome |-> "FaucetIneligible", reason |-> canUseFaucet(address).reason,
          pendingTransactions |-> pendingTransactions,
          faucetHistory |-> faucetHistory]
    ELSE useFaucet(address)

(* POST /api/mining/competition/start *)
postCompetitionStart(draw, duration) ==
    IF Len(miners) = 0 THEN [outcome |-> "NoMiners"] @@ schedulerUnchanged
    ELSE IF Len(pendingTransactions) = 0
    THEN [outcome |-> "NoPendingTransactions"] @@ schedulerUnchanged
    ELSE startMiningCompetition(draw, duration)

-----------------------------------------------------------------------------
(* The state machine. An action is one call of a ledger operation by a     *)
(* caller; its inputs are drawn from the sets it is given.                 *)

Init ==
    /\ chain = <<createGenesisBlock(0, StartClock)>>
    /\ difficulty = initialDifficulty
    /\ pendingTransactions = <<>>
    /\ accounts = <<>>
    /\ faucetHistory = <<>>
    /\ clock = StartClock
    /\ ticks = 0
    /\ last = [op |-> "constructor", outcome |-> "ok"]
    /\ autoMining = FALSE
    /\ miningInterval = FALSE
    /\ autoMineInterval = <<>>
    /\ minTransactionsToMine = defaultMinTransactionsToMine
    /\ maxBlockTime = defaultMaxBlockTime
    /\ miners = <<>>
    /\ miningStats = [totalBlocksMined |-> 0, totalRewardsPaid |-> 0]
    /\ competitionBlocks = 0

(* What a caller may pass as alias or address. *)
Addresses == {accounts[i].address : i \in 1..Len(accounts)}

Aliases == {accounts[i].alias : i \in 1..Len(accounts)} \ {NULL}

Inputs == Aliases \cup Addresses \cup {"nobody"}

(* Time passes between two calls. *)
Tick(steps) ==
    /\ ticks < MaxTicks
    /\ \E step \in steps : clock' = clock + step
    /\ ticks' = ticks + 1
    /\ last' = [op |-> "tick", outcome |-> "ok"]
    /\ UNCHANGED <<chain, difficulty, pendingTransactions, accounts, faucetHistory>>
    /\ UNCHANGED schedulerVars

CreateAccount(aliases, literals, maxAccounts) ==
    /\ Len(accounts) < maxAccounts
    /\ \E isAlias \in BOOLEAN :
       \E aliasOrAddress \in (IF isAlias THEN aliases ELSE literals) :
          LET r == createAccount(aliasOrAddress, isAlias)
          IN /\ accounts' = r.accounts
             /\ last' = [op |-> "createAccount",
                         outcome |-> IF r.success THEN "ok" ELSE "DuplicateAccount"]
    /\ UNCHANGED <<chain, difficulty, pendingTransactions, faucetHistory, clock, ticks>>
    /\ UNCHANGED schedulerVars

(* new Transaction(from, to, amount) followed by createTransaction. *)
SubmitTransaction(maxTx) ==
    /\ \E from \in Inputs \cup {NULL}, to \in Inputs \cup {NULL}, amount \in Amounts :
          LET r == createTransaction(
                       Transaction(uuidv4, from, to, amount, "transfer", clock))
          IN /\ uuidv4 <= maxTx
             /\ pendingTransactions' = r.pendingTransactions
             /\ last' = [op |-> "createTransaction", outcome |-> r.outcome]
    /\ UNCHANGED <<chain, difficulty, accounts, faucetHistory, clock, ticks>>
    /\ UNCHANGED schedulerVars

UseFaucet(maxTx, maxAttempts) ==
    /\ \E aliasOrAddress \in Inputs :
          LET r == useFaucet(aliasOrAddress)
          IN /\ uuidv4 <= (IF r.outcome = "ok" THEN maxTx ELSE maxAttempts)
             /\ pendingTransactions' = r.pendingTransactions
             /\ faucetHistory' = r.faucetHistory
             /\ last' = [op |-> "useFaucet", outcome |-> r.outcome]
    /\ UNCHANGED <<chain, difficulty, accounts, clock, ticks>>
    /\ UNCHANGED schedulerVars

Mine(maxChain, durations) ==
    /\ Len(chain) < maxChain
    /\ \E miningRewardAddress \in Inputs, duration \in durations :
          LET r == minePendingTransactions(miningRewardAddress, duration)
          IN /\ chain' = r.chain
             /\ pendingTransactions' = r.pendingTransactions
             /\ difficulty' = r.difficulty
             /\ clock' = r.clock
             /\ last' = [op |-> "minePendingTransactions", outcome |-> r.outcome]
    /\ UNCHANGED <<accounts, faucetHistory, ticks>>
    /\ UNCHANGED schedulerVars

ledgerVars == <<chain, difficulty, pendingTransactions, accounts,
                faucetHistory, clock, ticks>>

AddMiner(maxMiners, names, hashPowers) ==
    /\ \E minerAddress \in names, hashPower \in hashPowers :
          LET r == addMiner(minerAddress, hashPower)
          IN /\ r.success => Len(miners) < maxMiners
             /\ miners' = r.miners
             /\ last' = [op |-> "addMiner",
                         outcome |-> IF r.success THEN "ok" ELSE r.error]
    /\ UNCHANGED <<ledgerVars, autoMining, miningInterval, autoMineInterval,
                   minTransactionsToMine, maxBlockTime, miningStats,
                   competitionBlocks>>

RemoveMiner(names) ==
    /\ \E minerAddress \in names :
          LET r == removeMiner(minerAddress)
          IN /\ miners' = r.miners
             /\ last' = [op |-> "removeMiner",
                         outcome |-> IF r.success THEN "ok" ELSE r.error]
    /\ UNCHANGED <<ledgerVars, autoMining, miningInterval, autoMineInterval,
                   minTransactionsToMine, maxBlockTime, miningStats,
                   competitionBlocks>>

StartAutoMining(configs) ==
    /\ \E config \in configs :
          LET r == startAutoMining(config)
          IN /\ autoMining' = r.autoMining
             /\ miningInterval' = r.miningInterval
             /\ autoMineInterval' = r.autoMineInterval
             /\ minTransactionsToMine' = r.minTransactionsToMine
             /\ maxBlockTime' = r.maxBlockTime
             /\ last' = [op |-> "startAutoMining",
                         outcome |-> IF r.success THEN "ok" ELSE "AlreadyRunning"]
    /\ UNCHANGED <<ledgerVars, miners, miningStats, competitionBlocks>>

StopAutoMining ==
    /\ LET r == stopAutoMining
       IN /\ autoMining' = r.autoMining
          /\ miningInterval' = r.miningInterval
          /\ last' = [op |-> "stopAutoMining",
                      outcome |-> IF r.success THEN "ok" ELSE "NotRunning"]
    /\ UNCHANGED <<ledgerVars, autoMineInterval, minTransactionsToMine,
                   maxBlockTime, miners, miningStats, competitionBlocks>>

Draws ==
    IF totalHashPower = NaN THEN {NaN} ELSE 0..Max(0, totalHashPower - 1)

(* The timer set by startAutoMining fires. *)
PeriodicCheck(maxChain, durations) ==
    /\ miningInterval
    /\ \E draw \in Draws, duration \in durations :
          LET r == checkAndStartMining(draw, duration)
          IN /\ r.outcome = "ok" => Len(chain) < maxChain
             /\ chain' = r.chain
             /\ pendingTransactions' = r.pendingTransactions
             /\ difficulty' = r.difficulty
             /\ clock' = r.clock
             /\ miners' = r.miners
             /\ miningStats' = r.miningStats
             /\ competitionBlocks' =
                    competitionBlocks + (IF r.outcome = "ok" THEN 1 ELSE 0)
             /\ last' = [op |-> "checkAndStartMining", outcome |-> r.outcome]
    /\ UNCHANGED <<accounts, faucetHistory, ticks, autoMining, miningInterval,
                   autoMineInterval, minTransactionsToMine, maxBlockTime>>

(* The timer fires and the interval to its next firing elapses. The       *)
(* interval is counted while the check waits for the timeout; once the    *)
(* competition is entered, further time changes no decision of the check. *)
TimerFires(maxChain, durations) ==
    /\ miningInterval
    /\ \E draw \in Draws, duration \in durations :
          \E r \in {checkAndStartMining(draw, duration)} :
             /\ r.outcome = "ok" => Len(chain) < maxChain
             /\ chain' = r.chain
             /\ pendingTransactions' = r.pendingTransactions
             /\ difficulty' = r.difficulty
             /\ clock' = r.clock
                    + (IF r.outcome = "NotDue" THEN autoMineInterval[1] ELSE 0)
             /\ miners' = r.miners
             /\ miningStats' = r.miningStats
             /\ competitionBlocks' =
                    competitionBlocks + (IF r.outcome = "ok" THEN 1 ELSE 0)
             /\ last' = [op |-> "checkAndStartMining", outcome |-> r.outcome]
    /\ UNCHANGED <<accounts, faucetHistory, ticks, autoMining, miningInterval,
                   autoMineInterval, minTransactionsToMine, maxBlockTime>>

(* A competition triggered by hand. *)
TriggerCompetition(maxChain, durations) ==
    /\ \E draw \in Draws, duration \in durations :
          \E r \in {startMiningCompetition(draw, duration)} :
             /\ r.outcome = "ok" => Len(chain) < maxChain
             /\ chain' = r.chain
             /\ pendingTransactions' = r.pendingTransactions
             /\ difficulty' = r.difficulty
             /\ clock' = r.clock
             /\ miners' = r.miners
             /\ miningStats' = r.miningStats
             /\ competitionBlocks' =
                    competitionBlocks + (IF r.outcome = "ok" THEN 1 ELSE 0)
             /\ last' = [op |-> "startMiningCompetition", outcome |-> r.outcome]
    /\ UNCHANGED <<accounts, faucetHistory, ticks, autoMining, miningInterval,
                   autoMineInterval, minTransactionsToMine, maxBlockTime>>

(* The requests of the HTTP layer. *)
PostTransactions(maxTx, amounts) ==
    /\ \E from \in Inputs \cup {NULL}, to \in Inputs \cup {NULL}, amount \in amounts :
          LET r == postTransactions(from, to, amount)
          IN /\ uuidv4 <= maxTx
             /\ pendingTransactions' = r.pendingTransactions
             /\ last' = [op |-> "postTransactions", outcome |-> r.outcome]
    /\ UNCHANGED <<chain, difficulty, accounts, faucetHistory, clock, ticks>>
    /\ UNCHANGED schedulerVars

PostFaucetClaim(maxTx) ==
    /\ \E address \in Inputs \cup {NULL} :
          LET r == postFaucetClaim(address)
          IN /\ uuidv4 <= maxTx
             /\ pendingTransactions' = r.pendingTransactions
             /\ faucetHistory' = r.faucetHistory
             /\ last' = [op |-> "postFaucetClaim", outcome |-> r.outcome]
    /\ UNCHANGED <<chain, difficulty, accounts, clock, ticks>>
    /\ UNCHANGED schedulerVars

PostMine(maxChain, durations) ==
    /\ Len(chain) < maxChain
    /\ \E minerAddress \in Inputs \cup {NULL}, duration \in durations :
          LET r == postMine(minerAddress, duration)
          IN /\ chain' = r.chain
             /\ pendingTransactions' = r.pendingTransactions
             /\ difficulty' = r.difficulty
             /\ clock' = r.clock
             /\ last' = [op |-> "postMine", outcome |-> r.outcome]
    /\ UNCHANGED <<accounts, faucetHistory, ticks>>
    /\ UNCHANGED schedulerVars

PostCompetitionStart(maxChain, durations) ==
    /\ \E draw \in Draws, duration \in durations :
          LET r == postCompetitionStart(draw, duration)
          IN /\ r.outcome = "ok" => Len(chain) < maxChain
             /\ chain' = r.chain
             /\ pendingTransactions' = r.pendingTransactions
             /\ difficulty' = r.difficulty
             /\ clock' = r.clock
             /\ miners' = r.miners
             /\ miningStats' = r.miningStats
             /\ competitionBlocks' =
                    competitionBlocks + (IF r.outcome = "ok" THEN 1 ELSE 0)
             /\ last' = [op |-> "postCompetitionStart", outcome |-> r.outcome]
    /\ UNCHANGED <<accounts, faucetHistory, ticks, autoMining, miningInterval,
                   autoMineInterval, minTransactionsToMine, maxBlockTime>>

(* The ledger under every operation, on short chains. *)
Next ==
    \/ CreateAccount({"alice", "genesis"}, {"genesis", "alice"}, MaxAccounts)
    \/ SubmitTransaction(MaxTx)
    \/ UseFaucet(MaxTx, MaxTx)
    \/ Mine(MaxChain, {1000})

Spec == Init /\ [][Next]_vars

(* The faucet with the clock advancing: the accounts are alice, bob and    *)
(* the reserve, and the cooldown elapses.                                  *)
NextFaucet ==
    \/ CreateAccount({"alice", "bob"}, {"genesis"}, FaucetMaxAccounts)
    \/ UseFaucet(MaxTx, MaxTx + 1)
    \/ Mine(FaucetMaxChain, {1000})
    \/ Tick({1, faucetCooldown - 1})

SpecFaucet == Init /\ [][NextFaucet]_vars

(* Retargeting: one account mines a long chain with every duration. *)
NextRetarget ==
    \/ CreateAccount({}, {"genesis"}, MaxAccounts)
    \/ Mine(RetargetMaxChain, MiningDurations)

SpecRetarget == Init /\ [][NextRetarget]_vars

(* The reserve name taken as an alias: the account mines until it can pay  *)
(* a faucet claim.                                                         *)
NextReserve ==
    \/ CreateAccount({"genesis", "alice"}, {}, ReserveMaxAccounts)
    \/ UseFaucet(MaxTx, MaxTx)
    \/ Mine(ReserveMaxChain, {targetBlockTime})

SpecReserve == Init /\ [][NextReserve]_vars

(* The scheduler: miners come and go, the scheduler starts and stops, the  *)
(* timer fires, and transfers fill the pool. The reserve is the one        *)
(* account; "alice" is a name that is never registered.                    *)
Configs ==
    {[autoMineInterval |-> 0, minTransactionsToMine |-> 0, maxBlockTime |-> 0],
     [autoMineInterval |-> 5000, minTransactionsToMine |-> 2,
      maxBlockTime |-> 60000]}

NextScheduler ==
    \/ CreateAccount({}, {"genesis"}, MaxAccounts)
    \/ SubmitTransaction(MaxTx)
    \/ Mine(SchedulerMaxChain, {1000})
    \/ (ticks < SchedulerMaxTicks /\ Tick({defaultMaxBlockTime}))
    \/ AddMiner(MaxMiners, {"alice", "genesis", NULL}, {10})
    \/ RemoveMiner({"alice", "genesis", NULL})
    \/ StartAutoMining(Configs)
    \/ StopAutoMining
    \/ PeriodicCheck(SchedulerMaxChain, {1000})
    \/ TriggerCompetition(SchedulerMaxChain, {1000})

SpecScheduler == Init /\ [][NextScheduler]_vars

(* The scheduler under its timer: the timer keeps firing while the        *)
(* scheduler runs, and a proof-of-work search, once entered, ends.         *)
LiveConfigs ==
    {[autoMineInterval |-> 30000, minTransactionsToMine |-> 2,
      maxBlockTime |-> 60000]}

NextLive ==
    \/ CreateAccount({}, {"genesis"}, LiveMaxAccounts)
    \/ SubmitTransaction(LiveMaxTx)
    \/ AddMiner(LiveMaxMiners, {"alice", "genesis"}, {10})
    \/ RemoveMiner({"alice", "genesis"})
    \/ StartAutoMining(LiveConfigs)
    \/ StopAutoMining
    \/ TimerFires(LiveMaxChain, {1000})

SpecLive ==
    Init /\ [][NextLive]_vars /\ WF_vars(TimerFires(LiveMaxChain, {1000}))

(* The miner registry: miners of every requested weight, in tenths and   *)
(* no number included, register under aliases and addresses, leave, and   *)
(* compete.                                                                *)
RequestedHashPowers == {0, 10, 90, 1000, NaN}

NextMiners ==
    \/ CreateAccount({"alice"}, {"genesis"}, MinersMaxAccounts)
    \/ SubmitTransaction(MinersMaxTx)
    \/ AddMiner(MinersMaxMiners, Inputs, RequestedHashPowers)
    \/ RemoveMiner(Inputs)
    \/ StartAutoMining(LiveConfigs)
    \/ TriggerCompetition(MinersMaxChain, {1000})

SpecMiners == Init /\ [][NextMiners]_vars

(* The service: every change of the ledger is a request of the HTTP layer  *)
(* or a firing of the scheduler's timer. The accounts are the reserve and  *)
(* alice; amounts of every sign are submitted.                             *)
SubmittedAmounts == {0 - 60, 0, 60}

NextService ==
    \/ CreateAccount({"alice"}, {"genesis"}, MaxAccounts)
    \/ PostTransactions(MaxTx, SubmittedAmounts)
    \/ PostFaucetClaim(MaxTx)
    \/ PostMine(ServiceMaxChain, {1000})
    \/ AddMiner(ServiceMaxMiners, {"alice"}, {10})
    \/ StartAutoMining({[autoMineInterval |-> 0, minTransactionsToMine |-> 0,
                         maxBlockTime |-> 0]})
    \/ PeriodicCheck(ServiceMaxChain, {1000})
    \/ PostCompetitionStart(ServiceMaxChain, {1000})

SpecService == Init /\ [][NextService]_vars

(* Retargeting among the other operations: the reserve mines a chain long  *)
(* enough for the difficulty to move, fast and slow, while transfers,      *)
(* faucet claims, miner registration and the scheduler go on.              *)
NextFrame ==
    \/ CreateAccount({}, {"genesis"}, FrameMaxAccounts)
    \/ SubmitTransaction(FrameMaxTx)
    \/ UseFaucet(FrameMaxTx, FrameMaxTx)
    \/ Mine(FrameMaxChain, {1000, 30000})
    \/ AddMiner(FrameMaxMiners, {"genesis"}, {10})
    \/ RemoveMiner({"genesis"})
    \/ StartAutoMining({[autoMineInterval |-> 0, minTransactionsToMine |-> 0,
                         maxBlockTime |-> 0]})
    \/ StopAutoMining
    \/ PeriodicCheck(FrameMaxChain, {1000})

SpecFrame == Init /\ [][NextFrame]_vars

(* Spending: alice earns a reward by mining and submits transfers of the   *)
(* reward's amount, the faucet pays, and the reserve or alice mines.       *)
NextSpend ==
    \/ CreateAccount({"alice"}, {"genesis"}, MaxAccounts)
    \/ PostTransactions(MaxTx, {miningReward})
    \/ UseFaucet(MaxTx, MaxTx)
    \/ Mine(SpendMaxChain, {1000})

SpecSpend == Init /\ [][NextSpend]_vars

-----------------------------------------------------------------------------
(* Properties *)

(* C1: on a freshly constructed ledger, before any operation,              *)
(* isChainValid() returns true: the genesis block rebuilt by               *)
(* createGenesisBlock(), with its transaction's id and timestamp, is       *)
(* identical to chain[0].                                                  *)
C1_GenesisDeterminism ==
    last.op = "constructor" =>
        /\ createGenesisBlock(uuidv4, clock) = chain[1]
        /\ isChainValid = "true"

(* C2: after any sequence of successful createAccount, createTransaction,  *)
(* useFaucet and minePendingTransactions calls isChainValid() returns true.*)
C2_ValidAfterOperations ==
    (last.op # "constructor" /\ last.outcome = "ok") => isChainValid = "true"

(* C3: hash linkage: for every index i > 0, chain[i].previousHash equals   *)
(* chain[i-1].hash.                                                        *)
C3_HashLinkage ==
    \A i \in 2..Len(chain) : chain[i].previousHash = chain[i - 1].hash

C3_Witness ==
    /\ Len(chain) = 3
    /\ last = [op |-> "minePendingTransactions", outcome |-> "ok"]
    /\ chain[3].previousHash = chain[2].hash
    /\ chain[3].transactions # <<>>

(* C4: every block stored in the chain has hash = calculateHash() over its *)
(* current fields, also right after mineBlock has set miner and reward.    *)
C4_StoredHashIsComputed ==
    Len(chain) > 1 =>
        \A i \in 1..Len(chain) : chain[i].hash = calculateHash(chain[i])

(* C5: tamper detection: changing the amount of any transaction that is    *)
(* in a block of the chain makes isChainValid() return false.              *)
TamperedAmounts == {1, 60, faucetAmount, genesisSupply}

tamper(c, i, j, amount) ==
    [c EXCEPT ![i] = [@ EXCEPT !.transactions =
                         [@ EXCEPT ![j] = [@ EXCEPT !.amount = amount]]]]

C5_TamperDetection ==
    \A i \in 1..Len(chain) : \A j \in 1..Len(chain[i].transactions) :
        \A amount \in TamperedAmounts \ {chain[i].transactions[j].amount} :
            isChainValidOn(tamper(chain, i, j, amount), uuidv4, clock) = "false"

C5_Witness ==
    /\ Len(chain) = 2
    /\ Len(chain[2].transactions) = 2
    /\ chain[2].transactions[1].type = "transfer"
    /\ chain[2].transactions[2].type = "faucet"
    /\ isChainValidOn(tamper(chain, 2, 1, 1), uuidv4, clock) = "false"

(* C6: createTransaction and useFaucet change no derived balance, and each *)
(* successful minePendingTransactions changes the sum of getBalance over   *)
(* all registered accounts by exactly the mining reward.                   *)
RECURSIVE registeredTotal(_, _)
registeredTotal(c, i) ==
    IF i > Len(accounts) THEN 0
    ELSE balanceOn(c, accounts[i].address) + registeredTotal(c, i + 1)

C6_MiningAddsReward ==
    \A m \in Inputs, d \in MiningDurations :
        LET r == minePendingTransactions(m, d)
        IN r.outcome = "ok" =>
               registeredTotal(r.chain, 1) = registeredTotal(chain, 1) + miningReward

C6_PoolKeepsBalances ==
    last'.op \in {"createTransaction", "useFaucet"} =>
        \A a \in Addresses : getAccountBalance(a)' = getAccountBalance(a)

C6_SupplyAccounting == []C6_MiningAddsReward /\ [][C6_PoolKeepsBalances]_vars

(* C7: createTransaction fails with MissingAddress when from or to is      *)
(* absent, with UnknownAccount when a resolved endpoint is not registered, *)
(* with InsufficientBalance when the sender's derived balance is less than *)
(* amount; a failing call leaves the pool, the chain, the difficulty and   *)
(* the transaction's fields as they were.                                  *)
C7_SubmitFailures ==
    \A from \in Inputs \cup {NULL}, to \in Inputs \cup {NULL} :
    \A amount \in Amounts \cup {faucetAmount} :
        LET tx == Transaction(uuidv4, from, to, amount, "transfer", clock)
            r == createTransaction(tx)
            absent == from = NULL \/ to = NULL
            unknown == \E x \in {from, to} : resolveAddress(x) \notin Addresses
            poor == getAccountBalance(from) < amount
        IN /\ absent => r.outcome = "MissingAddress"
           /\ (~absent /\ unknown) => r.outcome = "UnknownAccount"
           /\ (~absent /\ ~unknown /\ poor) => r.outcome = "InsufficientBalance"
           /\ (~absent /\ ~unknown /\ ~poor) => r.outcome = "ok"
           /\ r.outcome # "ok" =>
                  /\ r.pendingTransactions = pendingTransactions
                  /\ r.transaction = tx

C7_Witness ==
    /\ last = [op |-> "createTransaction", outcome |-> "InsufficientBalance"]
    /\ pendingTransactions # <<>>
    /\ \E x \in Aliases : getAccountBalance(x) > 0 /\ getAccountBalance(x) < 60

(* C8: on a ledger where only alice and bob have been created alice has    *)
(* balance 0, a faucet claim for alice succeeds and adds exactly one        *)
(* pending faucet transaction of the configured amount to alice, and after  *)
(* a registered miner mines, that transaction is in the new block and       *)
(* getBalance(alice) is the faucet amount.                                  *)
(* As amended: the faucet reserve account (literal address "genesis") has   *)
(* been created as well, and the miner is an account other than alice.      *)
scenarioAccounts(withReserve) ==
    /\ Len(accounts) = (IF withReserve THEN 3 ELSE 2)
    /\ \E i \in 1..Len(accounts) : accounts[i].alias = "alice"
    /\ \E i \in 1..Len(accounts) : accounts[i].alias = "bob"
    /\ withReserve =>
           \E i \in 1..Len(accounts) :
               accounts[i] = [address |-> faucetAddress, alias |-> NULL]

isFaucetPayout(tx, address) ==
    tx.type = "faucet" /\ tx.to = address /\ tx.amount = faucetAmount

scenarioClaim(withReserve) ==
    ( /\ scenarioAccounts(withReserve)
      /\ Len(chain) = 1 /\ pendingTransactions = <<>> /\ faucetHistory = <<>> )
    => /\ getAccountBalance("alice") = 0
       /\ LET r == useFaucet("alice")
          IN /\ r.outcome = "ok"
             /\ Len(r.pendingTransactions) = 1
             /\ isFaucetPayout(r.pendingTransactions[1], resolveAddress("alice"))

scenarioMine(withReserve, aliceMayMine) ==
    ( /\ scenarioAccounts(withReserve)
      /\ Len(chain) = 1 /\ Len(pendingTransactions) = 1
      /\ isFaucetPayout(pendingTransactions[1], resolveAddress("alice")) )
    => \A m \in Inputs :
           ( /\ resolveAddress(m) \in Addresses
             /\ aliceMayMine \/ resolveAddress(m) # resolveAddress("alice") )
           => LET r == minePendingTransactions(m, 1000)
              IN /\ r.outcome = "ok"
                 /\ Len(r.chain) = 2
                 /\ r.chain[2].transactions = pendingTransactions
                 /\ r.pendingTransactions = <<>>
                 /\ balanceOn(r.chain, "alice") = faucetAmount

C8_FaucetScenario == scenarioClaim(FALSE) /\ scenarioMine(FALSE, TRUE)

C8_FaucetScenarioWithReserve == scenarioClaim(TRUE) /\ scenarioMine(TRUE, FALSE)

C8_Witness ==
    /\ scenarioAccounts(TRUE)
    /\ last = [op |-> "minePendingTransactions", outcome |-> "ok"]
    /\ Len(chain) = 2 /\ Len(chain[2].transactions) = 1
    /\ isFaucetPayout(chain[2].transactions[1], resolveAddress("alice"))
    /\ chain[2].miner # resolveAddress("alice")
    /\ getAccountBalance("alice") = faucetAmount

(* C9: after a successful faucet claim for an address at time t, a claim    *)
(* for the same address, by alias or by address, before t + cooldown fails  *)
(* as ineligible with remainingTime > 0 and changes nothing; at a time      *)
(* >= t + cooldown the address is eligible again.                           *)
allTransactions ==
    LET RECURSIVE flat(_)
        flat(i) == IF i > Len(chain) THEN pendingTransactions
                   ELSE chain[i].transactions \o flat(i + 1)
    IN flat(1)

claimTimes(address) ==
    {allTransactions[k].timestamp : k \in
        {k \in 1..Len(allTransactions) :
            isFaucetPayout(allTransactions[k], address)}}

C9_FaucetCooldown ==
    \A x \in Inputs :
        LET address == resolveAddress(x)
        IN (address \in Addresses /\ claimTimes(address) # {}) =>
            LET t == CHOOSE t \in claimTimes(address) :
                         \A u \in claimTimes(address) : u <= t
                c == canUseFaucet(x)
                r == useFaucet(x)
            IN /\ clock < t + faucetCooldown =>
                      /\ ~c.canUse
                      /\ c.remainingTime # <<>>
                      /\ c.remainingTime[1] > 0
                      /\ r.outcome = "FaucetIneligible"
                      /\ r.pendingTransactions = pendingTransactions
                      /\ r.faucetHistory = faucetHistory
               /\ clock >= t + faucetCooldown => c.canUse

C9_Witness ==
    /\ last = [op |-> "useFaucet", outcome |-> "FaucetIneligible"]
    /\ \E a \in Addresses :
          /\ Cardinality(claimTimes(a)) = 2
          /\ \E t \in claimTimes(a) : clock = t + faucetCooldown - 1
          /\ canUseFaucet(a).remainingTime = <<1>>

(* C10: with a retarget window of 5: when the five most recent blocks each  *)
(* have miningTime = target/10 the next adjustDifficulty raises difficulty  *)
(* by exactly 1; when each has target*3 it lowers it by exactly 1 but never *)
(* below 1; when mean/target is within [0.5, 2.0] difficulty is unchanged.  *)
window == {i \in 1..Len(chain) : i > Len(chain) - difficultyAdjustmentInterval}

windowAll(duration) ==
    /\ Len(chain) >= difficultyAdjustmentInterval
    /\ \A i \in window :
           "miningTime" \in DOMAIN chain[i] /\ chain[i].miningTime = duration

timed == {i \in window : "miningTime" \in DOMAIN chain[i] /\ chain[i].miningTime > 0}

RECURSIVE sumTimes(_)
sumTimes(S) ==
    IF S = {} THEN 0
    ELSE LET i == CHOOSE i \in S : TRUE
         IN chain[i].miningTime + sumTimes(S \ {i})

ratioWithin ==
    /\ timed # {}
    /\ 2 * sumTimes(timed) >= Cardinality(timed) * targetBlockTime
    /\ sumTimes(timed) <= 2 * Cardinality(timed) * targetBlockTime

C10_Retarget ==
    /\ difficulty >= 1
    /\ windowAll(targetBlockTime \div 10) => adjustDifficulty = difficulty + 1
    /\ windowAll(targetBlockTime * 3) =>
           adjustDifficulty = (IF difficulty > 1 THEN difficulty - 1 ELSE 1)
    /\ ratioWithin => adjustDifficulty = difficulty
    /\ \A m \in Addresses, d \in MiningDurations :
           minePendingTransactions(m, d).difficulty = adjustDifficulty

C10_Witness ==
    /\ last = [op |-> "minePendingTransactions", outcome |-> "ok"]
    /\ Len(chain) = 8
    /\ \A i \in 3..8 : chain[i].miningTime = targetBlockTime * 3
    /\ difficulty = 1

(* C11: minePendingTransactions with a miner whose resolved address is   *)
(* not a registered account fails with the invalid-miner error and leaves *)
(* the chain, the pending pool and the difficulty as before the call.     *)
C11_InvalidMiner ==
    \A m \in Inputs, d \in MiningDurations :
        LET r == minePendingTransactions(m, d)
        IN resolveAddress(m) \notin Addresses =>
               /\ r.outcome = "InvalidMinerAddress"
               /\ r.chain = chain
               /\ r.pendingTransactions = pendingTransactions
               /\ r.difficulty = difficulty

C11_Witness ==
    /\ last = [op |-> "minePendingTransactions", outcome |-> "InvalidMinerAddress"]
    /\ Len(chain) >= 2
    /\ pendingTransactions # <<>>

(* C12: a successful minePendingTransactions appends exactly one block    *)
(* whose transactions are the whole pending pool in submission order,     *)
(* whose previousHash is the hash of the previous tip, whose miner is the *)
(* resolved miner address and whose reward is the mining reward; the pool *)
(* is empty afterwards and no reward transaction exists.                  *)
C12_MinedBlock ==
    \A m \in Inputs, d \in MiningDurations :
        LET r == minePendingTransactions(m, d)
            n == Len(chain)
        IN r.outcome = "ok" =>
               /\ Len(r.chain) = n + 1
               /\ SubSeq(r.chain, 1, n) = chain
               /\ r.chain[n + 1].transactions = pendingTransactions
               /\ r.chain[n + 1].previousHash = chain[n].hash
               /\ r.chain[n + 1].miner = resolveAddress(m)
               /\ r.chain[n + 1].reward = miningReward
               /\ r.pendingTransactions = <<>>
               /\ \A i \in 1..(n + 1) :
                      \A j \in 1..Len(r.chain[i].transactions) :
                          r.chain[i].transactions[j].type \in
                              {"genesis", "transfer", "faucet"}

C12_Witness ==
    /\ last = [op |-> "minePendingTransactions", outcome |-> "ok"]
    /\ pendingTransactions = <<>>
    /\ Len(chain) >= 2
    /\ LET b == chain[Len(chain)]
       IN /\ Len(b.transactions) = 2
          /\ b.transactions[1].id < b.transactions[2].id
          /\ b.miner \in Addresses
          /\ b.miner \notin Aliases
          /\ b.reward = miningReward

(* C13: after any sequence of createAccount calls no two registered       *)
(* accounts share an alias and no two share an address; creating an        *)
(* account with an alias or a literal address that is already registered   *)
(* is rejected and leaves the account directory unchanged.                 *)
C13_NoMergedAccounts ==
    /\ \A i, j \in 1..Len(accounts) :
           i # j => /\ accounts[i].address # accounts[j].address
                    /\ accounts[i].alias # NULL =>
                           accounts[i].alias # accounts[j].alias
    /\ \A x \in Aliases :
           LET r == createAccount(x, TRUE)
           IN ~r.success /\ r.accounts = accounts
    /\ \A x \in Addresses :
           LET r == createAccount(x, FALSE)
           IN ~r.success /\ r.accounts = accounts

(* C14: getBalance never fails: it is 0 when the resolved address is not   *)
(* a registered account, and otherwise the amounts of the chain's          *)
(* transactions to the address, minus those from it, plus the rewards of   *)
(* the chain's blocks mined by it; the pending pool does not count.        *)
positions ==
    UNION {{<<i, j>> : j \in 1..Len(chain[i].transactions)} : i \in 1..Len(chain)}

RECURSIVE sumAmounts(_)
sumAmounts(P) ==
    IF P = {} THEN 0
    ELSE LET p == CHOOSE p \in P : TRUE
         IN chain[p[1]].transactions[p[2]].amount + sumAmounts(P \ {p})

RECURSIVE sumRewards(_)
sumRewards(B) ==
    IF B = {} THEN 0
    ELSE LET i == CHOOSE i \in B : TRUE
         IN chain[i].reward + sumRewards(B \ {i})

C14_DerivedBalance ==
    \A x \in Inputs \cup {NULL} :
        LET address == resolveAddress(x)
            received == {p \in positions :
                            chain[p[1]].transactions[p[2]].to = address}
            sent == {p \in positions :
                        chain[p[1]].transactions[p[2]].from = address}
            mined == {i \in 1..Len(chain) : chain[i].miner = address}
        IN getAccountBalance(x) =
               (IF address \notin Addresses THEN 0
                ELSE sumAmounts(received) - sumAmounts(sent) + sumRewards(mined))

C14_Witness ==
    \E x \in Aliases :
        LET address == resolveAddress(x)
        IN /\ x # address
           /\ \E p \in positions : chain[p[1]].transactions[p[2]].to = address
           /\ \E i \in 1..Len(chain) : chain[i].miner = address
           /\ \E k \in 1..Len(pendingTransactions) :
                  pendingTransactions[k].from = address
           /\ getAccountBalance(x) = faucetAmount + miningReward

(* C15: resolveAddress(x) looks x up as an alias first: when a registered  *)
(* account has alias x it returns that account's address, even if x is     *)
(* also the literal address of another registered account; only when no    *)
(* alias matches is x taken as a literal address, and x is returned        *)
(* unchanged when no account matches.                                      *)
(* As amended: x is looked up as an address first, and as an alias (the    *)
(* first account created with it) only when no registered address is x.    *)
aliased(x) == {i \in 1..Len(accounts) : accounts[i].alias = x}

C15_AliasFirst ==
    \A x \in Inputs :
        /\ aliased(x) # {} =>
               \E i \in aliased(x) : resolveAddress(x) = accounts[i].address
        /\ aliased(x) = {} => resolveAddress(x) = x

C15_AddressFirst ==
    \A x \in Inputs :
        /\ x \in Addresses => resolveAddress(x) = x
        /\ (x \notin Addresses /\ aliased(x) # {}) =>
               \E i \in aliased(x) :
                   /\ \A j \in aliased(x) : i <= j
                   /\ resolveAddress(x) = accounts[i].address
        /\ (x \notin Addresses /\ aliased(x) = {}) => resolveAddress(x) = x

C15_Witness ==
    \E x \in Aliases \cap Addresses :
        /\ resolveAddress(x) = x
        /\ \E i \in aliased(x) : accounts[i].address # x

(* C16: start(config) fails, leaving the scheduler state and the stored   *)
(* configuration unchanged, when the scheduler is already Running or when  *)
(* no miner is registered; otherwise it moves Stopped to Running and       *)
(* stores the check interval, the trigger threshold and the maximum        *)
(* inter-block interval.                                                   *)
C16_StartGuards ==
    \A config \in Configs :
        LET r == startAutoMining(config)
        IN IF autoMining \/ Len(miners) = 0
           THEN /\ ~r.success
                /\ r.autoMining = autoMining
                /\ r.miningInterval = miningInterval
                /\ r.autoMineInterval = autoMineInterval
                /\ r.minTransactionsToMine = minTransactionsToMine
                /\ r.maxBlockTime = maxBlockTime
           ELSE /\ r.success
                /\ r.autoMining
                /\ r.miningInterval
                /\ r.autoMineInterval =
                       <<orDefault(config.autoMineInterval, defaultAutoMineInterval)>>
                /\ r.minTransactionsToMine =
                       orDefault(config.minTransactionsToMine,
                                 defaultMinTransactionsToMine)
                /\ r.maxBlockTime =
                       orDefault(config.maxBlockTime, defaultMaxBlockTime)

(* C17: removing the last registered miner while the scheduler is Running  *)
(* moves the scheduler to Stopped: autoMining false, the periodic check    *)
(* cancelled.                                                              *)
C17_RemovalStops ==
    ( /\ last'.op = "removeMiner" /\ last'.outcome = "ok"
      /\ autoMining
      /\ miners' = <<>> )
    => (~autoMining' /\ ~miningInterval')

C17_LastMinerStops == [][C17_RemovalStops]_vars

(* C18: stop() on a Running scheduler moves it to Stopped and cancels the  *)
(* periodic check, so that until the next successful start no periodic     *)
(* check appends a block or changes the pool; stop() on a Stopped          *)
(* scheduler changes nothing.                                              *)
C18_Stop ==
    /\ LET r == stopAutoMining
       IN IF autoMining
          THEN r.success /\ ~r.autoMining /\ ~r.miningInterval
          ELSE /\ ~r.success
               /\ r.autoMining = autoMining
               /\ r.miningInterval = miningInterval
    /\ miningInterval <=> autoMining
    /\ ~autoMining =>
           \A draw \in Draws, duration \in MiningDurations :
               LET r == checkAndStartMining(draw, duration)
               IN /\ r.chain = chain
                  /\ r.pendingTransactions = pendingTransactions
                  /\ r.difficulty = difficulty
                  /\ r.miners = miners
                  /\ r.miningStats = miningStats

C18_Witness ==
    /\ last = [op |-> "stopAutoMining", outcome |-> "ok"]
    /\ ~autoMining /\ ~miningInterval
    /\ miners # <<>>
    /\ \A i \in 1..Len(miners) : miners[i].address \in Addresses
    /\ Len(pendingTransactions) >= minTransactionsToMine
    /\ competitionBlocks >= 1

(* C19: a periodic check appends a block if and only if the scheduler is   *)
(* Running, at least one miner is registered, the pool holds at least one  *)
(* transaction, and (pendingCount >= triggerThreshold or                   *)
(* timeSinceLastBlock >= maxBlockInterval); in every other case the check  *)
(* leaves chain, pool, difficulty and statistics unchanged.                *)
checkDue ==
    /\ autoMining
    /\ Len(miners) >= 1
    /\ Len(pendingTransactions) >= 1
    /\ \/ Len(pendingTransactions) >= minTransactionsToMine
       \/ clock - chain[Len(chain)].timestamp >= maxBlockTime

C19_CheckMinesIff ==
    \A draw \in Draws, duration \in MiningDurations :
        LET r == checkAndStartMining(draw, duration)
        IN /\ checkDue <=> Len(r.chain) = Len(chain) + 1
           /\ ~checkDue => /\ r.chain = chain
                           /\ r.pendingTransactions = pendingTransactions
                           /\ r.difficulty = difficulty
                           /\ r.miners = miners
                           /\ r.miningStats = miningStats

(* C20: each successful competition adds 1 to the winner's blocksMined and *)
(* the reward to its totalRewards, 1 to totalBlocksMined and the reward to *)
(* totalRewardsPaid, and changes no other miner's record; so               *)
(* totalRewardsPaid = totalBlocksMined * reward, and totalBlocksMined is   *)
(* the number of blocks appended by competitions.                          *)
C20_Statistics ==
    /\ miningStats.totalRewardsPaid = miningStats.totalBlocksMined * miningReward
    /\ miningStats.totalBlocksMined = competitionBlocks
    /\ \A draw \in Draws, duration \in MiningDurations :
           LET r == startMiningCompetition(draw, duration)
           IN IF r.outcome = "ok"
              THEN /\ Len(r.miners) = Len(miners)
                   /\ r.miningStats.totalBlocksMined =
                          miningStats.totalBlocksMined + 1
                   /\ r.miningStats.totalRewardsPaid =
                          miningStats.totalRewardsPaid + miningReward
                   /\ \A i \in 1..Len(miners) :
                          IF miners[i].address = r.chain[Len(r.chain)].miner
                          THEN /\ r.miners[i].blocksMined =
                                      miners[i].blocksMined + 1
                               /\ r.miners[i].totalRewards =
                                      miners[i].totalRewards + miningReward
                               /\ r.miners[i].address = miners[i].address
                               /\ r.miners[i].hashPower = miners[i].hashPower
                          ELSE r.miners[i] = miners[i]
              ELSE r.miners = miners /\ r.miningStats = miningStats

C20_Witness ==
    /\ last.outcome = "ok"
    /\ last.op \in {"startMiningCompetition", "checkAndStartMining"}
    /\ Len(chain) = 3
    /\ competitionBlocks = 1
    /\ miningStats = [totalBlocksMined |-> 1, totalRewardsPaid |-> miningReward]
    /\ Len(miners) = 2
    /\ \E i, j \in 1..2 :
           /\ miners[i].blocksMined = 1 /\ miners[i].totalRewards = miningReward
           /\ miners[j].blocksMined = 0 /\ miners[j].totalRewards = 0

(* C21: mining is rejected when the pending pool is empty: through the     *)
(* HTTP mine operation, the manual competition trigger and the periodic    *)
(* scheduler check no block with zero transactions is ever appended, so    *)
(* every non-genesis block of the chain holds at least one transaction.    *)
C21_NoEmptyBlock ==
    /\ \A i \in 2..Len(chain) : Len(chain[i].transactions) >= 1
    /\ pendingTransactions = <<>> =>
           /\ \A m \in Inputs \cup {NULL}, d \in MiningDurations :
                  LET r == postMine(m, d)
                  IN /\ r.outcome \in {"Required", "NoPendingTransactions"}
                     /\ m # NULL => r.outcome = "NoPendingTransactions"
                     /\ r.chain = chain
                     /\ r.pendingTransactions = pendingTransactions
                     /\ r.difficulty = difficulty
           /\ \A draw \in Draws, d \in MiningDurations :
                  /\ postCompetitionStart(draw, d).outcome
                         \in {"NoMiners", "NoPendingTransactions"}
                  /\ postCompetitionStart(draw, d).chain = chain
                  /\ checkAndStartMining(draw, d).outcome
                         \in {"NotRunning", "NotDue", "NoMiners", "EmptyPool"}
                  /\ checkAndStartMining(draw, d).chain = chain

C21_Witness ==
    /\ last = [op |-> "postMine", outcome |-> "NoPendingTransactions"]
    /\ pendingTransactions = <<>>
    /\ Len(chain) = 2
    /\ autoMining
    /\ miners # <<>>
    /\ \A i \in 1..Len(miners) : miners[i].address \in Addresses
    /\ competitionBlocks = 1

(* C22: non-positive amounts never enter the ledger: a transaction         *)
(* submission with amount <= 0 is rejected with the pending pool           *)
(* unchanged, so every transaction in the pending pool and in every block  *)
(* has amount > 0.                                                         *)
C22_PositiveAmounts ==
    /\ \A k \in 1..Len(allTransactions) : allTransactions[k].amount > 0
    /\ \A from \in Inputs \cup {NULL}, to \in Inputs \cup {NULL} :
       \A amount \in SubmittedAmounts :
           LET r == postTransactions(from, to, amount)
           IN amount <= 0 =>
                  /\ r.outcome \in {"Required", "AmountNotPositive"}
                  /\ r.pendingTransactions = pendingTransactions

C22_Witness ==
    /\ last = [op |-> "postTransactions", outcome |-> "AmountNotPositive"]
    /\ Len(chain) = 2
    /\ chain[2].transactions[1].type = "transfer"
    /\ chain[2].transactions[1].amount = 60
    /\ pendingTransactions = <<>>

(* C23: a faucet claim that fails, because the claimant is ineligible      *)
(* (unregistered account or cooldown not elapsed) or with FaucetEmpty      *)
(* because the reserve's derived balance is below the dispense amount,     *)
(* leaves the pending pool, the faucet history and the chain exactly as    *)
(* before; a successful claim adds exactly one transaction to the pool and *)
(* records the claim time for the claimant's resolved address, without     *)
(* mining.                                                                 *)
reserveBalance ==
    IF faucetAddress \in Addresses THEN chainDelta(chain, 1, faucetAddress) ELSE 0

cooling(address) ==
    /\ address \in DOMAIN faucetHistory
    /\ clock - faucetHistory[address] < faucetCooldown

C23_ClaimOutcome ==
    \A x \in Inputs :
        LET address == resolveAddress(x)
            r == useFaucet(x)
            ineligible == address \notin Addresses \/ cooling(address)
        IN /\ ineligible => r.outcome = "FaucetIneligible"
           /\ (~ineligible /\ reserveBalance < faucetAmount) =>
                  r.outcome = "FaucetEmpty"
           /\ (~ineligible /\ reserveBalance >= faucetAmount) => r.outcome = "ok"
           /\ r.outcome # "ok" =>
                  /\ r.pendingTransactions = pendingTransactions
                  /\ r.faucetHistory = faucetHistory
           /\ r.outcome = "ok" =>
                  /\ Len(r.pendingTransactions) = Len(pendingTransactions) + 1
                  /\ SubSeq(r.pendingTransactions, 1, Len(pendingTransactions))
                         = pendingTransactions
                  /\ isFaucetPayout(
                         r.pendingTransactions[Len(r.pendingTransactions)], address)
                  /\ DOMAIN r.faucetHistory = DOMAIN faucetHistory \cup {address}
                  /\ r.faucetHistory[address] = clock
                  /\ \A a \in DOMAIN faucetHistory \ {address} :
                         r.faucetHistory[a] = faucetHistory[a]

C23_ClaimStep ==
    last'.op = "useFaucet" =>
        /\ chain' = chain
        /\ difficulty' = difficulty
        /\ last'.outcome # "ok" =>
               pendingTransactions' = pendingTransactions
               /\ faucetHistory' = faucetHistory

C23_FaucetClaim == []C23_ClaimOutcome /\ [][C23_ClaimStep]_vars

C23_Witness ==
    /\ last = [op |-> "useFaucet", outcome |-> "ok"]
    /\ Len(chain) = 1
    /\ Len(pendingTransactions) = 2
    /\ \E a, b \in Addresses \ Aliases :
          /\ a # b
          /\ DOMAIN faucetHistory = {a, b}
          /\ faucetHistory[a] < faucetHistory[b]
          /\ faucetHistory[b] = clock
          /\ cooling(a)

(* C24: isChainValid() always reports its verdict as a boolean and never   *)
(* raises, for every chain reachable through ledger operations, chains     *)
(* whose blocks contain faucet transactions included.                      *)
C24_VerdictIsBoolean == isChainValid \in {"true", "false"}

C24_Witness ==
    /\ Len(chain) = 3
    /\ \E j \in 1..Len(chain[2].transactions) :
          /\ chain[2].transactions[j].type = "faucet"
          /\ Transaction_isValid(chain[2].transactions[j]) = "throw"
    /\ hasValidTransactions(chain[2]) = "throw"
    /\ isChainValid = "false"

(* C25: Transaction.isValid(): a transaction with from = null is always    *)
(* valid; a transaction with non-null from and no signature raises;        *)
(* otherwise isValid() is true exactly when the stored signature is the    *)
(* keyed MAC of the fingerprint of (from, to, amount, timestamp, kind)     *)
(* under key = from, so a signature computed with the sender's address as  *)
(* key is accepted whoever computed it.                                    *)
Signers == Inputs \cup {"mallory"}

Kinds == {"transfer", "faucet", "genesis"}

(* The signatures a transaction may carry: none, an empty one, the MAC of  *)
(* its own fingerprint under any signer's key, and the MAC under the       *)
(* sender's key of the fingerprint of the transaction with another amount. *)
Signatures(tx) ==
    {NULL, ""}
    \cup {signTransaction(tx, k).signature : k \in Signers}
    \cup {signTransaction([tx EXCEPT !.amount = @ + 1], tx.from).signature}

C25_Verify ==
    /\ \A from \in Inputs \cup {NULL}, to \in Inputs, amount \in Amounts :
       \A kind \in Kinds :
           LET unsigned == Transaction(uuidv4, from, to, amount, kind, clock)
           IN \A sig \in Signatures(unsigned) :
                  LET tx == [unsigned EXCEPT !.signature = sig]
                      v == Transaction_isValid(tx)
                  IN /\ from = NULL => v = "true"
                     /\ (from # NULL /\ sig \in {NULL, ""}) => v = "throw"
                     /\ (from # NULL /\ sig \notin {NULL, ""}) =>
                            /\ v \in {"true", "false"}
                            /\ v = "true" <=>
                                   sig = signTransaction(unsigned, from).signature
                            /\ v = "true" <=>
                                   \E k \in Signers :
                                       /\ k = from
                                       /\ sig = signTransaction(unsigned, k).signature
    /\ \A k \in 1..Len(allTransactions) :
           LET tx == allTransactions[k]
           IN Transaction_isValid(tx) =
                  (IF tx.type = "faucet" THEN "throw" ELSE "true")

C25_Witness ==
    /\ Len(pendingTransactions) = 2
    /\ \E i, j \in 1..2 :
          LET tx == pendingTransactions[i]
          IN /\ tx.type = "transfer"
             /\ tx.from # tx.to
             /\ tx.from \notin Aliases
             /\ tx.signature = HmacSHA256(Transaction_calculateHash(tx), tx.from)
             /\ Transaction_isValid(tx) = "true"
             /\ pendingTransactions[j].type = "faucet"
             /\ pendingTransactions[j].signature = NULL
             /\ Transaction_isValid(pendingTransactions[j]) = "throw"

(* C26: no transaction is lost or duplicated: under any interleaving of    *)
(* submissions, faucet claims, manual mining calls and periodic scheduler  *)
(* checks, each executing to completion, every transaction accepted into   *)
(* the pending pool is at all later times either in the pending pool or in *)
(* exactly one block of the chain, never both and never in two blocks.     *)
(* allTransactions lists the transactions of the blocks, in chain order,   *)
(* and then those of the pool: a transaction that stays where it is or     *)
(* moves from the pool to the new block keeps its position in the list.    *)
C26_OnePlace ==
    \A i, j \in 1..Len(allTransactions) :
        i # j => allTransactions[i].id # allTransactions[j].id

C26_Kept ==
    /\ Len(allTransactions') \in {Len(allTransactions), Len(allTransactions) + 1}
    /\ SubSeq(allTransactions', 1, Len(allTransactions)) = allTransactions

C26_NoLossNoDuplicate == []C26_OnePlace /\ [][C26_Kept]_vars

C26_Witness ==
    /\ Len(chain) = 3
    /\ competitionBlocks = 1
    /\ miningStats.totalBlocksMined = 1
    /\ Len(chain[2].transactions) = 1
    /\ Len(chain[3].transactions) = 1
    /\ {chain[2].transactions[1].type, chain[3].transactions[1].type}
           = {"transfer", "faucet"}
    /\ pendingTransactions = <<>>

(* C27: adjustDifficulty is a no-op while the chain has fewer than         *)
(* retargetWindow blocks; otherwise it takes the mean of the mining        *)
(* durations of those of the most recent retargetWindow blocks that have a *)
(* recorded duration, skipping blocks without one, and retargets whenever  *)
(* at least one block in the window has a duration: it is a no-op only     *)
(* when none has.                                                          *)
C27_RetargetOnRecorded ==
    IF Len(chain) < difficultyAdjustmentInterval \/ timed = {}
    THEN adjustDifficulty = difficulty
    ELSE adjustDifficulty =
             (IF 2 * sumTimes(timed) < Cardinality(timed) * targetBlockTime
              THEN difficulty + 1
              ELSE IF sumTimes(timed) > 2 * Cardinality(timed) * targetBlockTime
              THEN Max(1, difficulty - 1)
              ELSE difficulty)

(* C28: in every reachable state difficulty >= 1; difficulty changes only  *)
(* inside minePendingTransactions, before the proof-of-work search starts  *)
(* and never during it, and by at most 1 per mined block;                  *)
(* createTransaction, a faucet claim, account creation, miner              *)
(* registration and scheduler start and stop leave difficulty unchanged.   *)
C28_Mining ==
    /\ difficulty >= 1
    /\ \A m \in Inputs, d \in MiningDurations :
           LET r == minePendingTransactions(m, d)
           IN /\ r.difficulty \in {difficulty - 1, difficulty, difficulty + 1}
              /\ r.difficulty >= 1
              /\ r.outcome # "ok" => r.difficulty = difficulty
              /\ r.outcome = "ok" =>
                     /\ r.difficulty = adjustDifficulty
                     /\ LeadingZeros(r.chain[Len(r.chain)].hash) >= r.difficulty
                     /\ r.chain[Len(r.chain)].nonce > 0 =>
                            LeadingZeros(calculateHash(
                                [r.chain[Len(r.chain)] EXCEPT
                                    !.nonce = @ - 1, !.miner = NULL]))
                                < r.difficulty

C28_Frame ==
    difficulty' # difficulty =>
        /\ last'.op \in {"minePendingTransactions", "checkAndStartMining"}
        /\ last'.outcome = "ok"
        /\ Len(chain') = Len(chain) + 1
        /\ difficulty' \in {difficulty - 1, difficulty + 1}

C28_DifficultyFrame == []C28_Mining /\ [][C28_Frame]_vars

C28_Witness ==
    /\ Len(chain) = 7
    /\ difficulty = initialDifficulty + 1
    /\ last.op \in {"addMiner", "startAutoMining", "createTransaction", "useFaucet"}
    /\ last.outcome = "ok"
    /\ autoMining
    /\ miners # <<>>
    /\ competitionBlocks = 1

(* C29: proof of work: mineBlock(difficulty, minerAddress) returns only    *)
(* when the block's stored hash has its first `difficulty` characters all  *)
(* zero, and only then sets miner and reward; hence every non-genesis      *)
(* block of the chain has a stored hash with at least as many leading      *)
(* zeros as the difficulty in force when it was mined.                     *)
(* difficultyAt(i) replays the retargeting from the constructor's          *)
(* difficulty: the difficulty with which block i was searched.             *)
RECURSIVE difficultyAt(_)
difficultyAt(i) ==
    IF i <= 1 THEN initialDifficulty
    ELSE adjustDifficultyOn(SubSeq(chain, 1, i - 1), difficultyAt(i - 1))

SearchedDifficulties == 1..4

C29_ProofOfWork ==
    /\ difficulty = difficultyAt(Len(chain))
    /\ \A i \in 2..Len(chain) :
           /\ LeadingZeros(chain[i].hash) >= difficultyAt(i)
           /\ chain[i].miner # NULL
           /\ chain[i].reward = blockReward
    /\ \A d \in SearchedDifficulties, m \in Addresses :
           LET b == Block(clock, pendingTransactions, getLatestBlock.hash)
               searched == mineLoop(b, d)
               mined == mineBlock(b, d, m)
           IN /\ LeadingZeros(mined.hash) >= d
              /\ mined.hash = searched.hash
              /\ mined.nonce = searched.nonce
              /\ searched.miner = NULL /\ searched.reward = 0
              /\ mined.miner = m /\ mined.reward = blockReward
              /\ \A n \in 1..(mined.nonce - 1) :
                     LeadingZeros(calculateHash([b EXCEPT !.nonce = n])) < d

C29_Witness ==
    /\ last = [op |-> "minePendingTransactions", outcome |-> "ok"]
    /\ Len(chain) = 8
    /\ difficulty = initialDifficulty + 2
    /\ difficultyAt(7) = initialDifficulty + 1
    /\ LeadingZeros(chain[8].hash) >= initialDifficulty + 2
    /\ chain[8].nonce >= 16

(* C30: the chain is append-only: across any sequence of operations the    *)
(* chain length never decreases, chain[0] is always the genesis block      *)
(* created at construction, and the fields of a block (transactions,       *)
(* previousHash, hash, nonce, miner, reward, miningTime) never change once *)
(* the block has been appended.                                            *)
C30_Genesis == chain[1] = createGenesisBlock(0, StartClock)

C30_Extends ==
    /\ Len(chain') \in {Len(chain), Len(chain) + 1}
    /\ SubSeq(chain', 1, Len(chain)) = chain

C30_AppendOnly == []C30_Genesis /\ [][C30_Extends]_vars

C30_Witness ==
    /\ Len(chain) = 7
    /\ last = [op |-> "removeMiner", outcome |-> "ok"]
    /\ competitionBlocks = 1
    /\ \E i \in 2..7 : Len(chain[i].transactions) = 1
    /\ \E i, j \in 2..7 : chain[i].miningTime # chain[j].miningTime

(* C31: no overdraft: in every reachable state the derived balance of      *)
(* every registered account, the faucet reserve included, is >= 0, for any *)
(* sequence of transaction submissions, faucet claims and mining.          *)
C31_NoOverdraft == \A a \in Addresses : getAccountBalance(a) >= 0

(* C32: every transaction that the ledger itself places in the pending     *)
(* pool, by createTransaction or by a faucet claim, passes isValid() with  *)
(* result true and without raising, so hasValidTransactions() is true for  *)
(* every block produced by mining.                                         *)
C32_LedgerTransactionsValid ==
    /\ \A k \in 1..Len(pendingTransactions) :
           Transaction_isValid(pendingTransactions[k]) = "true"
    /\ \A i \in 2..Len(chain) : hasValidTransactions(chain[i]) = "true"

(* C33: every registered miner's address is a registered account, so a     *)
(* mining competition, periodic or triggered by hand, never raises:        *)
(* registering a miner whose resolved address is not a registered account  *)
(* is rejected, and if a competition's minePendingTransactions fails, the  *)
(* chain, the pending pool and the miner and aggregate statistics are      *)
(* unchanged.                                                              *)
MinerNames == {"alice", "genesis", NULL}

C33_MinersAreAccounts ==
    /\ \A i \in 1..Len(miners) : miners[i].address \in Addresses
    /\ \A x \in MinerNames :
           resolveAddress(x) \notin Addresses =>
               /\ ~addMiner(x, 10).success
               /\ addMiner(x, 10).miners = miners
    /\ \A draw \in Draws, duration \in MiningDurations :
           LET r == startMiningCompetition(draw, duration)
               c == checkAndStartMining(draw, duration)
           IN /\ r.outcome # "throw"
              /\ c.outcome # "throw"
              /\ r.outcome # "ok" =>
                     /\ r.chain = chain
                     /\ r.pendingTransactions = pendingTransactions
                     /\ r.miners = miners
                     /\ r.miningStats = miningStats

(* C34: the trigger threshold is honoured before the timeout: after a      *)
(* start with minTransactionsToMine T > 1, a periodic check made less than *)
(* maxBlockTime after the scheduler was started or after the last block    *)
(* was mined, with 0 < pending count < T, does not mine; this also holds   *)
(* when the chain contains only the genesis block.                         *)
(* The time since construction bounds the time since the start from above. *)
C34_ThresholdBeforeTimeout ==
    ( /\ autoMining
      /\ minTransactionsToMine > 1
      /\ Len(pendingTransactions) > 0
      /\ Len(pendingTransactions) < minTransactionsToMine
      /\ clock - StartClock < maxBlockTime )
    => \A draw \in Draws, duration \in MiningDurations :
           LET r == checkAndStartMining(draw, duration)
           IN /\ r.outcome \in {"NotDue", "NoMiners", "throw"}
              /\ r.chain = chain
              /\ r.pendingTransactions = pendingTransactions

(* C35: whenever a faucet claim succeeds, the account whose derived        *)
(* balance passed the reserve check is the from of the enqueued            *)
(* transaction, so mining that transaction lowers that account's derived   *)
(* balance by the faucet amount; this holds for any registered aliases and *)
(* addresses, an account whose alias is the reserve name included.         *)
C35_DebitsCheckedAccount ==
    \A aliasOrAddress \in Inputs :
        LET r == useFaucet(aliasOrAddress)
            checked == resolveAddress(faucetAddress)
            faucetTransaction ==
                r.pendingTransactions[Len(r.pendingTransactions)]
        IN r.outcome = "ok" =>
               /\ faucetTransaction.from = checked
               /\ txDelta(<<faucetTransaction>>, 1, checked)
                      = (IF faucetTransaction.to = checked
                         THEN faucetAmount ELSE 0) - faucetAmount

(* C36: while the scheduler stays running with at least one registered     *)
(* miner, every transaction in the pending pool is eventually included in  *)
(* a block, the periodic check being weakly fair and every proof-of-work   *)
(* search ending. The chain has room for the block.                        *)
pending(id) ==
    \E k \in 1..Len(pendingTransactions) : pendingTransactions[k].id = id

included(id) ==
    \E i \in 2..Len(chain) :
        \E k \in 1..Len(chain[i].transactions) : chain[i].transactions[k].id = id

C36_EventuallyIncluded ==
    \A id \in 1..LiveMaxTx :
        (pending(id) /\ autoMining /\ Len(miners) > 0 /\ Len(chain) < LiveMaxChain)
            ~> (included(id) \/ ~autoMining \/ Len(miners) = 0)

(* C37: in a competition with a non-empty miner set and a draw uniform in  *)
(* [0, sum of hashPower), the winner is the first miner in registration    *)
(* order whose cumulative hashPower reaches the draw; a winner is always   *)
(* selected, it is a currently registered miner and the block is mined for *)
(* it, and the share of the draws a miner wins is its hashPower divided by *)
(* the total (9/10 for the second of two miners of powers 1 and 9). The    *)
(* draws are the unit cells of [0, total), total being a number.           *)
wonBy(i) == {draw \in Draws : winningMiner(draw) = i}

C37_WeightedSelection ==
    (Len(miners) > 0 /\ totalHashPower # NaN) =>
        /\ Cardinality(Draws) = totalHashPower
        /\ \A i \in 1..Len(miners) : Cardinality(wonBy(i)) = miners[i].hashPower
        /\ \A draw \in Draws :
               LET w == winningMiner(draw)
               IN /\ w \in 1..Len(miners)
                  /\ draw < currentWeight(w)
                  /\ \A j \in 1..(w - 1) : currentWeight(j) <= draw
                  /\ \E r \in {startMiningCompetition(draw, targetBlockTime)} :
                         r.outcome = "ok" =>
                             /\ r.chain[Len(r.chain)].miner = miners[w].address
                             /\ r.miners[w].blocksMined = miners[w].blocksMined + 1

C37_Witness ==
    /\ last = [op |-> "startMiningCompetition", outcome |-> "ok"]
    /\ Len(miners) = 2
    /\ miners[1].hashPower = 10
    /\ miners[2].hashPower = 90
    /\ miners[2].blocksMined = 1
    /\ chain[2].miner = miners[2].address
    /\ Cardinality(wonBy(2)) * 10 = 9 * totalHashPower

(* C38: a registered miner's hashPower is always within [0.1, 10] (1 to    *)
(* 100 tenths) whatever weight was requested; registering an address, or   *)
(* an alias resolving to an address, that is already a miner is rejected   *)
(* and leaves the miner set unchanged, so no address appears twice in the  *)
(* miner set; registering or deregistering while a miner remains does not  *)
(* change whether the scheduler is stopped or running.                     *)
C38_Registry ==
    /\ \A i \in 1..Len(miners) :
           /\ miners[i].hashPower # NaN
           /\ miners[i].hashPower >= minHashPower
           /\ miners[i].hashPower <= maxHashPower
    /\ \A i, j \in 1..Len(miners) : miners[i].address = miners[j].address => i = j
    /\ \A x \in Inputs, hashPower \in RequestedHashPowers :
           minerIndex(resolveAddress(x)) # 0 =>
               /\ ~addMiner(x, hashPower).success
               /\ addMiner(x, hashPower).miners = miners

C38_SchedulerKept ==
    (last'.op \in {"addMiner", "removeMiner"} /\ Len(miners') > 0) =>
        /\ autoMining' = autoMining
        /\ miningInterval' = miningInterval

C38_Registration == []C38_Registry /\ [][C38_SchedulerKept]_vars

(* C39: across any sequence of operations the registered accounts only     *)
(* grow (no account is removed or has its address or alias changed), and   *)
(* the faucet history only grows: an address once recorded is never        *)
(* removed and its last-claim timestamp never decreases.                   *)
C39_Grow ==
    /\ Len(accounts') >= Len(accounts)
    /\ \A i \in 1..Len(accounts) : accounts'[i] = accounts[i]
    /\ DOMAIN faucetHistory \subseteq DOMAIN faucetHistory'
    /\ \A a \in DOMAIN faucetHistory : faucetHistory'[a] >= faucetHistory[a]

C39_MonotonicRegistries == [][C39_Grow]_vars

C39_Witness ==
    /\ last = [op |-> "useFaucet", outcome |-> "ok"]
    /\ Len(accounts) >= 2
    /\ \E a \in DOMAIN faucetHistory :
           faucetHistory[a] >= StartClock + faucetCooldown
    /\ uuidv4 = 3

====
